---- MODULE Spec2Model ----
(***************************************************************************)
(* Model of the indexing core of blazing_SEARCH: the folder reconciler     *)
(* (folder_processor.rs), the inverted index (inverted_index.rs), the      *)
(* atomic two-file commit and the update lock (atomic_index_manager.rs),   *)
(* and the unlocked reader (search_engine.rs).                             *)
(*                                                                         *)
(* Conventions.  A text is a sequence of characters; a character is a      *)
(* one-token string.  Cyrillic letters are written by their Latin          *)
(* transliteration ("k" "o" "t" "a" is the word kota), an upper-case       *)
(* Cyrillic letter is "UP_" followed by its lower-case name, ASCII letters *)
(* are "lat_x".  Document ids and paragraph positions are 0-based as in    *)
(* the code: document d of a Vec is element d+1 of the sequence.           *)
(***************************************************************************)
EXTENDS Integers, Sequences, FiniteSets, TLC

\* ------------------------------------------------------------------------
\* Bounds of the model
\* ------------------------------------------------------------------------
MaxPaths == 2
MaxTime == 2
MaxOps == 3
MaxCycles == 2
MaxCommits == 2
MaxCrashes == 1
NumProcs == 2
MaxInodes == 2
MaxSegs == 3
MaxDocs == 2
MaxResults == 3

\* ------------------------------------------------------------------------
\* Generic helpers
\* ------------------------------------------------------------------------
\* absent values are records, so that they compare with records
NoFile == [nofile |-> TRUE]
None == [none |-> TRUE]

Range(s) == {s[i] : i \in 1..Len(s)}

RECURSIVE SeqFilterIn(_, _)
SeqFilterIn(s, S) ==
  IF s = <<>> THEN <<>>
  ELSE IF Head(s) \in S THEN <<Head(s)>> \o SeqFilterIn(Tail(s), S)
       ELSE SeqFilterIn(Tail(s), S)

Contains(s, x) == \E i \in 1..Len(s) : s[i] = x

\* all orderings of a finite set, as sequences without repetition
Perms(S) ==
  {f \in [1..Cardinality(S) -> S] : \A i, j \in 1..Cardinality(S) : i # j => f[i] # f[j]}

RECURSIVE SortedSeqOfSet(_)
SortedSeqOfSet(S) ==
  IF S = {} THEN <<>>
  ELSE LET m == CHOOSE x \in S : \A y \in S : x <= y
       IN <<m>> \o SortedSeqOfSet(S \ {m})

\* ------------------------------------------------------------------------
\* Characters and the stemmer of the indexer (inverted_index.rs)
\* ------------------------------------------------------------------------
UKRAINIAN_VOWELS == {"a", "e", "ye", "y", "i", "yi", "o", "u", "yu", "ya", "soft"}
CyrConsonants == {"k", "t", "p", "s", "r", "b", "v", "ts", "g", "m", "j", "f", "d"}
CyrUpper == {"UP_k", "UP_p"}
AsciiLetters == {"lat_a"}
GreekSigma == {"UP_sigma", "sigma", "fsigma"}
Digits == {"1", "2"}
Apostrophe == "'"
Hyphen == "-"
Space == " "

\* characters matched by the class [\p{L}\p{N}'] of WORD_REGEX
WordChars == UKRAINIAN_VOWELS \cup CyrConsonants \cup CyrUpper \cup AsciiLetters
             \cup GreekSigma \cup Digits \cup {Apostrophe}

\* UTF-8 width of a character: String::len counts bytes
ByteWidth(c) == IF c \in AsciiLetters \cup Digits \cup {Apostrophe, Hyphen, Space, ".", ","}
                THEN 1 ELSE 2

RECURSIVE ByteLen(_)
ByteLen(w) == IF w = <<>> THEN 0 ELSE ByteWidth(Head(w)) + ByteLen(Tail(w))

LowerChar(c) == IF c = "UP_k" THEN "k" ELSE IF c = "UP_p" THEN "p" ELSE c

\* str::to_lowercase lowers a capital sigma by its context: to the final
\* form when a cased letter precedes it and none follows it, characters that
\* case mapping ignores (apostrophe, full stop) being skipped on either side
FinalSigma(w, i) ==
  LET Cased == WordChars \ (Digits \cup {Apostrophe})
      Ignorable == {Apostrophe, "."}
      before == {j \in 1..(i - 1) : w[j] \notin Ignorable}
      after == {j \in (i + 1)..Len(w) : w[j] \notin Ignorable}
  IN /\ before # {} /\ w[CHOOSE j \in before : \A k \in before : k <= j] \in Cased
     /\ ~(after # {} /\ w[CHOOSE j \in after : \A k \in after : j <= k] \in Cased)

to_lowercase(w) ==
  [i \in 1..Len(w) |->
     IF w[i] = "UP_sigma" THEN (IF FinalSigma(w, i) THEN "fsigma" ELSE "sigma")
     ELSE LowerChar(w[i])]

ends_with(w, suf) ==
  /\ Len(w) >= Len(suf)
  /\ SubSeq(w, Len(w) - Len(suf) + 1, Len(w)) = suf

DropLast(w, n) == SubSeq(w, 1, Len(w) - n)

RECURSIVE StripTrailingVowels(_)
StripTrailingVowels(w) ==
  IF w = <<>> THEN w
  ELSE IF w[Len(w)] \in UKRAINIAN_VOWELS \/ w[Len(w)] = "j"
       THEN StripTrailingVowels(DropLast(w, 1))
       ELSE w

SufEts == <<"e", "ts", "soft">>
SufTsya == <<"ts", "ya">>
SufTsyu == <<"ts", "yu">>
SufOgo == <<"o", "g", "o">>
SufOmu == <<"o", "m", "u">>

stem_word_part(word) ==
  LET r1 == IF ends_with(word, SufEts) THEN DropLast(word, 3)
            ELSE IF ends_with(word, SufTsya) THEN DropLast(word, 2)
            ELSE IF ends_with(word, SufTsyu) THEN DropLast(word, 2)
            ELSE word
      r2 == IF ends_with(r1, SufOgo) THEN DropLast(r1, 3) ELSE r1
      r3 == IF ends_with(r2, SufOmu) THEN DropLast(r2, 3) ELSE r2
  IN StripTrailingVowels(r3)

\* split(sep): the pieces between separators, empty pieces included
RECURSIVE SplitOn(_, _, _)
SplitOn(w, sep, cur) ==
  IF w = <<>> THEN <<cur>>
  ELSE IF Head(w) = sep THEN <<cur>> \o SplitOn(Tail(w), sep, <<>>)
       ELSE SplitOn(Tail(w), sep, Append(cur, Head(w)))

RECURSIVE JoinWith(_, _)
JoinWith(parts, sep) ==
  IF parts = <<>> THEN <<>>
  ELSE IF Len(parts) = 1 THEN parts[1]
       ELSE parts[1] \o <<sep>> \o JoinWith(Tail(parts), sep)

stem_word(word) ==
  LET w == to_lowercase(word)
  IN IF Contains(w, Hyphen)
     THEN LET parts == SplitOn(w, Hyphen, <<>>)
          IN JoinWith([i \in 1..Len(parts) |-> stem_word_part(parts[i])], Hyphen)
     ELSE stem_word_part(w)

\* find_iter of WORD_REGEX: the maximal runs of word characters
RECURSIVE Tokens(_, _)
Tokens(text, cur) ==
  IF text = <<>> THEN (IF cur = <<>> THEN <<>> ELSE <<cur>>)
  ELSE IF Head(text) \in WordChars THEN Tokens(Tail(text), Append(cur, Head(text)))
       ELSE (IF cur = <<>> THEN <<>> ELSE <<cur>>) \o Tokens(Tail(text), <<>>)

RECURSIVE KeepIndexable(_)
KeepIndexable(ws) ==
  IF ws = <<>> THEN <<>>
  ELSE IF Head(ws) # <<>> /\ ByteLen(Head(ws)) >= 2
       THEN <<Head(ws)>> \o KeepIndexable(Tail(ws))
       ELSE KeepIndexable(Tail(ws))

extract_words(text) ==
  LET toks == Tokens(text, <<>>)
      stems == [i \in 1..Len(toks) |->
                  stem_word(SeqFilterIn(toks[i], WordChars \ {Apostrophe}))]
  IN KeepIndexable(stems)

\* split_whitespace().count()
WordCountOf(text) ==
  LET pieces == SplitOn(text, Space, <<>>)
  IN Cardinality({i \in 1..Len(pieces) : pieces[i] # <<>>})

\* ------------------------------------------------------------------------
\* The stemmer of stemmer.rs and the query pipeline of search_engine.rs
\* ------------------------------------------------------------------------
starts_with(w, pre) == Len(w) >= Len(pre) /\ SubSeq(w, 1, Len(pre)) = pre

Fed == <<"f", "e", "d">>

\* a stemmer that pops one trailing vowel instead of all of them
stemmer_stem_word_part_pops_once(word) ==
  LET r1 == IF ends_with(word, SufEts) THEN DropLast(word, 3)
            ELSE IF ends_with(word, SufTsya) THEN DropLast(word, 2)
            ELSE IF ends_with(word, SufTsyu) THEN DropLast(word, 2)
            ELSE word
      r2 == IF ends_with(r1, SufOgo) THEN DropLast(r1, 3) ELSE r1
      r3 == IF ends_with(r2, SufOmu) THEN DropLast(r2, 3) ELSE r2
  IN IF r3 # <<>> /\ (r3[Len(r3)] \in UKRAINIAN_VOWELS \/ r3[Len(r3)] = "j")
     THEN DropLast(r3, 1) ELSE r3

\* stemmer.rs, stem_word_part: the suffix rules, the vowel loop, then the
\* rule for the name Fedir
stemmer_stem_word_part(word) ==
  LET r1 == IF ends_with(word, SufEts) THEN DropLast(word, 3)
            ELSE IF ends_with(word, SufTsya) THEN DropLast(word, 2)
            ELSE IF ends_with(word, SufTsyu) THEN DropLast(word, 2)
            ELSE word
      r2 == IF ends_with(r1, SufOgo) THEN DropLast(r1, 3) ELSE r1
      r3 == IF ends_with(r2, SufOmu) THEN DropLast(r2, 3) ELSE r2
      r4 == StripTrailingVowels(r3)
  IN IF starts_with(r4, Fed)
        /\ (ends_with(r4, <<"i", "r">>) \/ ends_with(r4, <<"o", "r">>) \/ ends_with(r4, <<"i">>))
     THEN Fed ELSE r4

StemParts(w, part(_)) ==
  IF Contains(w, Hyphen)
  THEN JoinWith([i \in 1..Len(SplitOn(w, Hyphen, <<>>)) |-> part(SplitOn(w, Hyphen, <<>>)[i])],
                Hyphen)
  ELSE part(w)

stemmer_stem_word(word) == StemParts(to_lowercase(word), stemmer_stem_word_part)

\* SearchEngine::stem_word_part: no rule for Fedir
search_stem_word_part(word) ==
  LET r1 == IF ends_with(word, SufEts) THEN DropLast(word, 3)
            ELSE IF ends_with(word, SufTsya) THEN DropLast(word, 2)
            ELSE IF ends_with(word, SufTsyu) THEN DropLast(word, 2)
            ELSE word
      r2 == IF ends_with(r1, SufOgo) THEN DropLast(r1, 3) ELSE r1
      r3 == IF ends_with(r2, SufOmu) THEN DropLast(r2, 3) ELSE r2
  IN StripTrailingVowels(r3)

search_stem_word(word) == StemParts(to_lowercase(word), search_stem_word_part)

\* replace('\'', "")
StripApostrophes(text) == SeqFilterIn(text, Range(text) \ {Apostrophe})

\* split_whitespace: the non-empty pieces between spaces
split_whitespace(text) ==
  LET pieces == SplitOn(text, Space, <<>>)
      keep == {i \in 1..Len(pieces) : pieces[i] # <<>>}
  IN [k \in 1..Cardinality(keep) |-> pieces[SortedSeqOfSet(keep)[k]]]

process_search_query(query) ==
  LET words == split_whitespace(StripApostrophes(query))
  IN JoinWith([i \in 1..Len(words) |-> search_stem_word(words[i])], Space)

\* characters matched by the class [\p{L}\p{N}] of the query's WORD_REGEX;
\* every other character of the alphabet is a non-word character, so \b
\* holds at both ends of every maximal run
QueryWordChars == WordChars \ {Apostrophe}

RECURSIVE QueryTokens(_, _)
QueryTokens(text, cur) ==
  IF text = <<>> THEN (IF cur = <<>> THEN <<>> ELSE <<cur>>)
  ELSE IF Head(text) \in QueryWordChars THEN QueryTokens(Tail(text), Append(cur, Head(text)))
       ELSE (IF cur = <<>> THEN <<>> ELSE <<cur>>) \o QueryTokens(Tail(text), <<>>)

extract_search_words(query) ==
  LET toks == QueryTokens(query, <<>>)
  IN [i \in 1..Len(toks) |-> to_lowercase(toks[i])]

\* the lookup keys SearchEngine::search derives from a query
QueryWords(query) == extract_search_words(process_search_query(query))

\* ------------------------------------------------------------------------
\* Sample documents: what the DOCX parser returns for a file body
\* ------------------------------------------------------------------------
TxtKotaPes == <<"k", "o", "t", "a", " ", "p", "e", "s">>
TxtPes == <<"UP_p", "e", "s", ".">>
TxtRybaKota == <<"r", "y", "b", "a", ",", " ", "k", "o", "t", "o", "g", "o">>
TxtRyba == <<"r", "y", "b", "a", " ", "ya">>

Bodies == {"b1", "b2", "bad"}

\* parse_docx_with_structure: Ok(paragraphs) or Err for a damaged archive
ParseOk(body) == body # "bad"

ContentOf(body) ==
  IF body = "b1" THEN <<TxtKotaPes>>
  ELSE IF body = "b2" THEN <<TxtPes, TxtRybaKota>>
  ELSE <<TxtRyba>>

\* metadata.len() of a file with this body
SizeOf(body) ==
  IF body = "b1" THEN 10 ELSE IF body = "b2" THEN 20 ELSE IF body = "b3" THEN 10 ELSE 30

\* paragraphs of the search scenarios: a paragraph that opens with the word
\* pidstava, one with a capital sigma before a full stop, and the words kot
\* and pes with one word of n copies of a letter between them
TxtPidstava == <<"UP_p", "i", "d", "s", "t", "a", "v", "a", " ", "k", "o", "t", "a">>
TxtSigma == <<"lat_a", "UP_sigma", ".", "lat_a">>

GapText(ch, n) == <<"k", "o", "t", " ">> \o [i \in 1..n |-> ch] \o <<" ", "p", "e", "s">>

GapTexts == {GapText(ch, n) : ch \in {"v", "lat_a"}, n \in {6, 7, 13, 14}}

AllTexts == {TxtKotaPes, TxtPes, TxtRybaKota, TxtRyba, TxtPidstava, TxtSigma} \cup GapTexts

\* extract_words of every sample paragraph (evaluated once)
WordsOf == [t \in AllTexts |-> extract_words(t)]

\* ------------------------------------------------------------------------
\* Maps (HashMap) as functions with a finite domain
\* ------------------------------------------------------------------------
EmptyMap == [x \in {} |-> <<>>]

MapPut(m, k, v) == [x \in DOMAIN m \cup {k} |-> IF x = k THEN v ELSE m[x]]

MapDel(m, k) == [x \in DOMAIN m \ {k} |-> m[x]]

\* ------------------------------------------------------------------------
\* Forward index (document_record.rs)
\* ------------------------------------------------------------------------
RECURSIVE SumWordCounts(_)
SumWordCounts(content) ==
  IF content = <<>> THEN 0 ELSE WordCountOf(Head(content)) + SumWordCounts(Tail(content))

\* DocumentRecord built from the parsed paragraphs and the file's metadata
DocumentRecord(path, meta, content) ==
  [file_path |-> path, file_name |-> path, file_size |-> meta.size,
   last_modified |-> meta.mtime, content |-> content,
   word_count |-> SumWordCounts(content), paragraph_count |-> Len(content)]

DocumentIndexNew == [documents |-> <<>>, total_documents |-> 0, total_words |-> 0]

\* documents.get(d) for a 0-based d
HasDoc(index, d) == d >= 0 /\ d < Len(index.documents)

DocAt(index, d) == index.documents[d + 1]

\* ------------------------------------------------------------------------
\* Inverted index (inverted_index.rs)
\* ------------------------------------------------------------------------
InvertedIndexNew == [word_to_docs |-> EmptyMap, total_documents |-> 0]

DocPosition(d, ps) == [doc_index |-> d, paragraph_positions |-> ps]

RECURSIVE RetainNotDoc(_, _)
RetainNotDoc(dps, d) ==
  IF dps = <<>> THEN <<>>
  ELSE IF Head(dps).doc_index # d THEN <<Head(dps)>> \o RetainNotDoc(Tail(dps), d)
       ELSE RetainNotDoc(Tail(dps), d)

\* a removal that leaves the entries of a stem found in this document only
remove_document_from_index_shared_only(inv, doc_idx) ==
  LET retained == [w \in DOMAIN inv.word_to_docs |->
                     IF RetainNotDoc(inv.word_to_docs[w], doc_idx) = <<>>
                     THEN inv.word_to_docs[w]
                     ELSE RetainNotDoc(inv.word_to_docs[w], doc_idx)]
  IN [inv EXCEPT !.word_to_docs = retained]

remove_document_from_index(inv, doc_idx) ==
  LET retained == [w \in DOMAIN inv.word_to_docs |-> RetainNotDoc(inv.word_to_docs[w], doc_idx)]
      keep == {w \in DOMAIN retained : retained[w] # <<>>}
  IN [inv EXCEPT !.word_to_docs = [w \in keep |-> retained[w]]]

\* one (word, paragraph) occurrence of add_document_to_index_with_count
AddWord(w2d, word, doc_idx, para_idx) ==
  LET entry == IF word \in DOMAIN w2d THEN w2d[word] ELSE <<>>
      hits == {i \in 1..Len(entry) : entry[i].doc_index = doc_idx}
  IN IF hits # {}
     THEN LET i == CHOOSE k \in hits : \A j \in hits : k <= j
          IN IF Contains(entry[i].paragraph_positions, para_idx)
             THEN MapPut(w2d, word, entry)
             ELSE MapPut(w2d, word,
                         [entry EXCEPT ![i].paragraph_positions = Append(@, para_idx)])
     ELSE MapPut(w2d, word, Append(entry, DocPosition(doc_idx, <<para_idx>>)))

RECURSIVE AddWords(_, _, _, _)
AddWords(w2d, words, doc_idx, para_idx) ==
  IF words = <<>> THEN w2d
  ELSE AddWords(AddWord(w2d, Head(words), doc_idx, para_idx), Tail(words), doc_idx, para_idx)

RECURSIVE AddParagraphs(_, _, _, _)
AddParagraphs(w2d, content, doc_idx, para_idx) ==
  IF para_idx >= Len(content) THEN w2d
  ELSE AddParagraphs(AddWords(w2d, WordsOf[content[para_idx + 1]], doc_idx, para_idx),
                     content, doc_idx, para_idx + 1)

add_document_to_index(inv, doc_idx, document) ==
  [inv EXCEPT !.word_to_docs = AddParagraphs(@, document.content, doc_idx, 0)]

RECURSIVE RemoveAll(_, _)
RemoveAll(inv, ids) ==
  IF ids = <<>> THEN inv
  ELSE RemoveAll(remove_document_from_index(inv, Head(ids)), Tail(ids))

RECURSIVE AddAll(_, _, _)
AddAll(inv, document_index, ids) ==
  IF ids = <<>> THEN inv
  ELSE IF HasDoc(document_index, Head(ids))
       THEN AddAll(add_document_to_index(inv, Head(ids), DocAt(document_index, Head(ids))),
                   document_index, Tail(ids))
       ELSE AddAll(inv, document_index, Tail(ids))

update_incremental(inv, document_index, changed_doc_indices) ==
  IF changed_doc_indices = <<>> THEN inv
  ELSE [AddAll(RemoveAll(inv, changed_doc_indices), document_index, changed_doc_indices)
          EXCEPT !.total_documents = Len(document_index.documents)]

\* build_incremental without the refresh of total_documents on its early return
build_incremental_stale_total(existing_index, document_index, new_or_changed_docs) ==
  LET inverted_index == IF existing_index = None THEN InvertedIndexNew ELSE existing_index
  IN IF new_or_changed_docs = <<>>
     THEN inverted_index
     ELSE LET built == IF DOMAIN inverted_index.word_to_docs = {}
                       THEN AddAll(inverted_index, document_index, new_or_changed_docs)
                       ELSE update_incremental(inverted_index, document_index, new_or_changed_docs)
          IN [built EXCEPT !.total_documents = Len(document_index.documents)]

build_incremental(existing_index, document_index, new_or_changed_docs) ==
  LET inverted_index == IF existing_index = None THEN InvertedIndexNew ELSE existing_index
  IN IF new_or_changed_docs = <<>>
     THEN [inverted_index EXCEPT !.total_documents = Len(document_index.documents)]
     ELSE LET built == IF DOMAIN inverted_index.word_to_docs = {}
                       THEN AddAll(inverted_index, document_index, new_or_changed_docs)
                       ELSE update_incremental(inverted_index, document_index, new_or_changed_docs)
          IN [built EXCEPT !.total_documents = Len(document_index.documents)]

\* the current ids of the deleted paths, looked up in the forward index given
RECURSIVE ResolvePaths(_, _)
ResolvePaths(paths, document_index) ==
  IF paths = <<>> THEN <<>>
  ELSE LET hits == {d \in 0..(Len(document_index.documents) - 1) :
                      DocAt(document_index, d).file_path = Head(paths)}
       IN (IF hits = {} THEN <<>> ELSE <<CHOOSE d \in hits : \A e \in hits : d <= e>>)
          \o ResolvePaths(Tail(paths), document_index)

remove_deleted_documents_by_paths(inv, deleted_file_paths, document_index) ==
  IF deleted_file_paths = <<>> THEN inv
  ELSE RemoveAll(inv, ResolvePaths(deleted_file_paths, document_index))

\* sort_by_key(doc_index): a stable sort
RECURSIVE StableSortByDoc(_)
StableSortByDoc(dps) ==
  IF dps = <<>> THEN <<>>
  ELSE LET m == CHOOSE d \in {dps[i].doc_index : i \in 1..Len(dps)} :
                  \A i \in 1..Len(dps) : d <= dps[i].doc_index
           first == SeqFilterIn(dps, {dp \in Range(dps) : dp.doc_index = m})
           rest == SeqFilterIn(dps, {dp \in Range(dps) : dp.doc_index # m})
       IN first \o StableSortByDoc(rest)

RECURSIVE AppendMissing(_, _)
AppendMissing(acc, ps) ==
  IF ps = <<>> THEN acc
  ELSE AppendMissing(IF Contains(acc, Head(ps)) THEN acc ELSE Append(acc, Head(ps)), Tail(ps))

\* sort_unstable of a list of positions (duplicates kept)
RECURSIVE SortPositions(_)
SortPositions(ps) ==
  IF ps = <<>> THEN <<>>
  ELSE LET m == CHOOSE x \in Range(ps) : \A y \in Range(ps) : x <= y
       IN SeqFilterIn(ps, {m}) \o SortPositions(SeqFilterIn(ps, Range(ps) \ {m}))

\* the drain loop: cur is the open group (or None), out the finished groups
RECURSIVE MergeGroups(_, _, _)
MergeGroups(dps, cur, out) ==
  LET flush == IF cur # None /\ cur.paragraph_positions # <<>>
               THEN Append(out, DocPosition(cur.doc_index, SortPositions(cur.paragraph_positions)))
               ELSE out
  IN IF dps = <<>> THEN flush
     ELSE IF cur # None /\ cur.doc_index = Head(dps).doc_index
          THEN MergeGroups(Tail(dps),
                           DocPosition(cur.doc_index,
                                       AppendMissing(cur.paragraph_positions,
                                                     Head(dps).paragraph_positions)),
                           out)
          ELSE MergeGroups(Tail(dps), Head(dps), flush)

\* a pass that merges neighbours without sorting the posting list first
remove_duplicate_entries_unsorted(inv) ==
  [inv EXCEPT !.word_to_docs = [w \in DOMAIN @ |-> MergeGroups(@[w], None, <<>>)]]

remove_duplicate_entries(inv) ==
  [inv EXCEPT !.word_to_docs =
     [w \in DOMAIN @ |-> MergeGroups(StableSortByDoc(@[w]), None, <<>>)]]

cleanup(inv) ==
  LET cleaned == [w \in DOMAIN inv.word_to_docs |->
                    SeqFilterIn(inv.word_to_docs[w],
                                {dp \in Range(inv.word_to_docs[w]) : dp.paragraph_positions # <<>>})]
      keep == {w \in DOMAIN cleaned : w # <<>> /\ ByteLen(w) >= 2 /\ cleaned[w] # <<>>}
  IN [inv EXCEPT !.word_to_docs = [w \in keep |-> cleaned[w]]]

RECURSIVE AddEvery(_, _, _)
AddEvery(inv, document_index, d) ==
  IF d >= Len(document_index.documents) THEN inv
  ELSE AddEvery(add_document_to_index(inv, d, DocAt(document_index, d)), document_index, d + 1)

rebuild_from_scratch(document_index) ==
  remove_duplicate_entries(cleanup(
    AddEvery([InvertedIndexNew EXCEPT !.total_documents = Len(document_index.documents)],
             document_index, 0)))

\* ------------------------------------------------------------------------
\* The document folder and the index files
\* ------------------------------------------------------------------------
PathNames == <<"A.docx", "B.docx", "C.docx", "D.docx">>
Paths == {PathNames[i] : i \in 1..MaxPaths}

\* a DOCX file of the folder: its metadata and what its archive holds
FileMeta(body, mtime) == [size |-> SizeOf(body), mtime |-> mtime, body |-> body]

FileNames == {"doc", "inv", "doc_temp", "inv_temp", "doc_backup", "inv_backup",
              "inv_tmp", "inv_bak"}

NoFiles == [f \in FileNames |-> NoFile]

Exists(files, f) == files[f] # NoFile

\* DocumentIndex::validate_index
DocValidate(index) ==
  /\ ~(index.documents = <<>> /\ index.total_documents > 0)
  /\ Len(index.documents) = index.total_documents
  /\ \A i \in 1..Len(index.documents) :
        /\ index.documents[i].file_path # ""
        /\ ~(index.documents[i].content = <<>> /\ index.documents[i].paragraph_count > 0)
        /\ Len(index.documents[i].content) = index.documents[i].paragraph_count

\* a validation that rejects every empty map that claims documents
InvValidate_any_total(index) ==
  ~(DOMAIN index.word_to_docs = {} /\ index.total_documents > 0)

\* InvertedIndex::validate_index: only an empty map with a large total fails
InvValidate(index) == ~(DOMAIN index.word_to_docs = {} /\ index.total_documents > 100)

\* the existing indices as perform_update_with_lock loads them
LoadExistingDoc(files) ==
  IF Exists(files, "doc") /\ DocValidate(files.doc) THEN files.doc ELSE None

LoadExistingInv(files) ==
  IF Exists(files, "inv") /\ InvValidate(files.inv) THEN files.inv ELSE None

\* ------------------------------------------------------------------------
\* Reconciler (folder_processor.rs, process_folder_incremental)
\* ------------------------------------------------------------------------
\* existing_docs_map: path -> (index, last_modified); a later record wins
RECURSIVE ExistingDocsMap(_, _, _)
ExistingDocsMap(docs, i, m) ==
  IF i > Len(docs) THEN m
  ELSE ExistingDocsMap(docs, i + 1,
         MapPut(m, docs[i].file_path, [idx |-> i - 1, modified |-> docs[i].last_modified]))

\* size_time_to_doc: keyed by the metadata the record's path has on disk now
RECURSIVE SizeTimeToDoc(_, _, _, _)
SizeTimeToDoc(docs, folder, i, m) ==
  IF i > Len(docs) THEN m
  ELSE IF docs[i].file_path \in DOMAIN folder /\ folder[docs[i].file_path] # NoFile
       THEN SizeTimeToDoc(docs, folder, i + 1,
              MapPut(m, <<folder[docs[i].file_path].size, folder[docs[i].file_path].mtime>>,
                     [idx |-> i - 1, path |-> docs[i].file_path]))
       ELSE SizeTimeToDoc(docs, folder, i + 1, m)

\* state of the walk; origin is a ghost: for every record the position it
\* had in the existing index, -1 for a record pushed in this scan; marks is
\* a ghost: for every record whether this scan parsed it and whether this
\* scan moved it to another path
ScanStart(index) ==
  [docs |-> index.documents,
   total_words |-> index.total_words,
   total_documents |-> index.total_documents,
   map |-> ExistingDocsMap(index.documents, 1, EmptyMap),
   new_or_updated_indices |-> <<>>,
   renamed_indices |-> <<>>,
   processed_files |-> 0, skipped_files |-> 0, errors |-> 0,
   origin |-> [i \in 1..Len(index.documents) |-> i - 1],
   marks |-> [i \in 1..Len(index.documents) |-> [parsed |-> FALSE, renamed |-> FALSE]]]

\* the body of the walk loop for one DOCX file (lines 140-235)
\* a store that always pushes, also for a path that has a record
process_docx_always_push(st, p, meta) ==
  IF ParseOk(meta.body)
  THEN LET new_document == DocumentRecord(p, meta, ContentOf(meta.body))
       IN [st EXCEPT !.docs = Append(st.docs, new_document),
                     !.origin = Append(st.origin, -1),
                     !.marks = Append(st.marks, [parsed |-> TRUE, renamed |-> FALSE]),
                     !.total_words = @ + new_document.word_count,
                     !.total_documents = Len(st.docs) + 1,
                     !.new_or_updated_indices = Append(@, Len(st.docs)),
                     !.processed_files = @ + 1]
  ELSE [st EXCEPT !.errors = @ + 1]

process_docx(st, p, meta) ==
  IF ParseOk(meta.body)
  THEN LET new_document == DocumentRecord(p, meta, ContentOf(meta.body))
           known == p \in DOMAIN st.map
           doc_index == IF known THEN st.map[p].idx ELSE Len(st.docs)
           docs2 == IF known THEN [st.docs EXCEPT ![doc_index + 1] = new_document]
                    ELSE Append(st.docs, new_document)
       IN [st EXCEPT !.docs = docs2,
                     !.map = IF known THEN MapDel(st.map, p) ELSE st.map,
                     !.origin = IF known THEN st.origin ELSE Append(st.origin, -1),
                     !.marks = IF known THEN [st.marks EXCEPT ![doc_index + 1].parsed = TRUE]
                               ELSE Append(st.marks, [parsed |-> TRUE, renamed |-> FALSE]),
                     !.total_words = @ + new_document.word_count,
                     !.total_documents = Len(docs2),
                     !.new_or_updated_indices = Append(@, doc_index),
                     !.processed_files = @ + 1]
  ELSE [st EXCEPT !.errors = @ + 1]

WalkStep(st, p, meta, size_time_to_doc) ==
  IF p \in DOMAIN st.map
  THEN IF meta.mtime > st.map[p].modified
       THEN process_docx([st EXCEPT !.total_words = @ - st.docs[st.map[p].idx + 1].word_count],
                         p, meta)
       ELSE [st EXCEPT !.skipped_files = @ + 1]
  ELSE LET key == <<meta.size, meta.mtime>>
       IN IF key \in DOMAIN size_time_to_doc /\ size_time_to_doc[key].path # p
          THEN LET old == size_time_to_doc[key]
               IN [st EXCEPT !.docs[old.idx + 1].file_path = p,
                             !.marks[old.idx + 1].renamed = TRUE,
                             !.map = MapPut(MapDel(st.map, old.path), p,
                                            [idx |-> old.idx, modified |-> meta.mtime]),
                             !.renamed_indices = Append(@, old.idx)]
          ELSE process_docx(st, p, meta)

RECURSIVE Walk(_, _, _, _)
Walk(st, order, folder, size_time_to_doc) ==
  IF order = <<>> THEN st
  ELSE Walk(WalkStep(st, Head(order), folder[Head(order)], size_time_to_doc),
            Tail(order), folder, size_time_to_doc)

RECURSIVE SumRemovedWords(_, _)
SumRemovedWords(docs, found) ==
  IF docs = <<>> THEN 0
  ELSE (IF Head(docs).file_path \in found THEN 0 ELSE Head(docs).word_count)
       + SumRemovedWords(Tail(docs), found)

\* old_to_new_index_map of lines 262-301: built from two path maps of the
\* same sequence, it is the identity on the last position of every path
OldToNewDomain(docs, new_or_updated, renamed) ==
  IF new_or_updated # <<>> \/ renamed # <<>>
  THEN {i - 1 : i \in {k \in 1..Len(docs) :
                         \A j \in (k + 1)..Len(docs) : docs[j].file_path # docs[k].file_path}}
  ELSE {}

\* a closing pass that reports the records whose file was not found and
\* leaves them in the index
Finish_keeps_records(st, found) ==
  LET keepIdx == {i \in 1..Len(st.docs) : st.docs[i].file_path \in found}
      gone == SortedSeqOfSet((1..Len(st.docs)) \ keepIdx)
      dom == OldToNewDomain(st.docs, st.new_or_updated_indices, st.renamed_indices)
  IN [index |-> [documents |-> st.docs,
                 total_documents |-> Len(st.docs),
                 total_words |-> st.total_words],
      new_or_updated_indices |-> SeqFilterIn(st.new_or_updated_indices, dom),
      renamed_indices |-> SeqFilterIn(st.renamed_indices, dom),
      deleted_file_paths |-> [k \in 1..Len(gone) |-> st.docs[gone[k]].file_path],
      processed_files |-> st.processed_files,
      skipped_files |-> st.skipped_files,
      deleted_files |-> Len(gone),
      errors |-> st.errors,
      origin |-> st.origin,
      marks |-> st.marks,
      removed |-> <<>>]

\* the removal of the records whose file was not found and the closing
\* bookkeeping (lines 238-337)
Finish(st, found) ==
  LET keepIdx == {i \in 1..Len(st.docs) : st.docs[i].file_path \in found}
      gone == SortedSeqOfSet((1..Len(st.docs)) \ keepIdx)
      kept == SortedSeqOfSet(keepIdx)
      docs2 == [k \in 1..Len(kept) |-> st.docs[kept[k]]]
      dom == OldToNewDomain(docs2, st.new_or_updated_indices, st.renamed_indices)
  IN [index |-> [documents |-> docs2,
                 total_documents |-> Len(docs2),
                 total_words |-> st.total_words - SumRemovedWords(st.docs, found)],
      new_or_updated_indices |-> SeqFilterIn(st.new_or_updated_indices, dom),
      renamed_indices |-> SeqFilterIn(st.renamed_indices, dom),
      deleted_file_paths |-> [k \in 1..Len(gone) |-> st.docs[gone[k]].file_path],
      processed_files |-> st.processed_files,
      skipped_files |-> st.skipped_files,
      deleted_files |-> Len(gone),
      errors |-> st.errors,
      origin |-> [k \in 1..Len(kept) |-> st.origin[kept[k]]],
      marks |-> [k \in 1..Len(kept) |-> st.marks[kept[k]]],
      removed |-> [k \in 1..Len(gone) |->
                     [id |-> st.origin[gone[k]], path |-> st.docs[gone[k]].file_path]]]

\* folder: the DOCX files found by the walk; order: the order WalkDir
\* yields them in
process_folder_incremental(folder, order, existing_index) ==
  LET index == IF existing_index = None THEN DocumentIndexNew ELSE existing_index
      found == {p \in DOMAIN folder : folder[p] # NoFile}
      stt == SizeTimeToDoc(index.documents, folder, 1, EmptyMap)
  IN Finish(Walk(ScanStart(index), order, folder, stt), found)

\* ------------------------------------------------------------------------
\* The two-file commit (atomic_index_manager.rs, save_indices_atomically)
\* ------------------------------------------------------------------------
\* fs::remove_file whose error is ignored
RemoveFile(files, f) == [files EXCEPT ![f] = NoFile]

\* fs::rename: replaces the destination; callers test the source first
RenameFile(files, src, dst) == [files EXCEPT ![dst] = files[src], ![src] = NoFile]

restore_from_backups(files) ==
  LET f1 == IF Exists(files, "doc_backup") THEN RenameFile(files, "doc_backup", "doc") ELSE files
  IN IF Exists(f1, "inv_backup") THEN RenameFile(f1, "inv_backup", "inv") ELSE f1

\* the retry loop gives up when a removal fails with attempts = 3
MaxAttempts == 3

\* One file-system call of save_indices_atomically.  st.pc names the call
\* about to be made; fault says that this call returns an error (a rename
\* whose source is missing fails by itself).
SaveStep(st, fault) ==
  LET files == st.files
      err(fl) == [st EXCEPT !.files = fl, !.pc = "err"]
      go(fl, next) == [st EXCEPT !.files = fl, !.pc = next, !.attempts = 0]
      dropTemps(fl) == RemoveFile(RemoveFile(fl, "doc_temp"), "inv_temp")
  IN CASE st.pc = "clean" -> go(dropTemps(files), "write_doc")
       [] st.pc = "write_doc" ->
            IF fault THEN err(dropTemps(files))
            ELSE go([files EXCEPT !["doc_temp"] = st.doc], "write_inv")
       [] st.pc = "write_inv" ->
            IF fault THEN err(dropTemps(files))
            ELSE go([files EXCEPT !["inv_temp"] = st.inv], "backup_doc")
       [] st.pc = "backup_doc" ->
            IF ~Exists(files, "doc") THEN go(files, "backup_inv")
            ELSE IF fault THEN err(dropTemps(files))
            ELSE go([files EXCEPT !["doc_backup"] = files["doc"]], "backup_inv")
       [] st.pc = "backup_inv" ->
            IF ~Exists(files, "inv") THEN go(files, "remove_doc")
            ELSE IF fault THEN err(RemoveFile(dropTemps(files), "doc_backup"))
            ELSE go([files EXCEPT !["inv_backup"] = files["inv"]], "remove_doc")
       [] st.pc = "remove_doc" ->
            IF ~Exists(files, "doc") THEN go(files, "rename_doc")
            ELSE IF ~fault THEN go(RemoveFile(files, "doc"), "rename_doc")
            ELSE IF st.attempts < MaxAttempts THEN [st EXCEPT !.attempts = @ + 1]
            ELSE err(dropTemps(restore_from_backups(files)))
       [] st.pc = "rename_doc" ->
            IF fault \/ ~Exists(files, "doc_temp")
            THEN err(RemoveFile(restore_from_backups(files), "inv_temp"))
            ELSE go(RenameFile(files, "doc_temp", "doc"), "remove_inv")
       [] st.pc = "remove_inv" ->
            IF ~Exists(files, "inv") THEN go(files, "rename_inv")
            ELSE IF ~fault THEN go(RemoveFile(files, "inv"), "rename_inv")
            ELSE IF st.attempts < MaxAttempts THEN [st EXCEPT !.attempts = @ + 1]
            ELSE err(RemoveFile(restore_from_backups(files), "inv_temp"))
       [] st.pc = "rename_inv" ->
            IF fault \/ ~Exists(files, "inv_temp")
            THEN err(restore_from_backups(files))
            ELSE go(RenameFile(files, "inv_temp", "inv"), "remove_backups")
       [] st.pc = "remove_backups" ->
            go(RemoveFile(RemoveFile(files, "doc_backup"), "inv_backup"), "ok")
       [] OTHER -> st

SaveStart(files, document_index, inverted_index) ==
  [files |-> files, pc |-> "clean", attempts |-> 0,
   doc |-> document_index, inv |-> inverted_index]

RECURSIVE RunSave(_)
RunSave(st) == IF st.pc \in {"ok", "err"} THEN st ELSE RunSave(SaveStep(st, FALSE))

\* the whole call when no file-system call is made to fail
save_indices_atomically(files, document_index, inverted_index) ==
  RunSave(SaveStart(files, document_index, inverted_index))

\* ------------------------------------------------------------------------
\* The update cycle (atomic_index_manager.rs, perform_update_with_lock)
\* ------------------------------------------------------------------------
UpdateStats(scan) ==
  [processed |-> scan.processed_files, skipped |-> scan.skipped_files,
   deleted |-> scan.deleted_files, renamed |-> Len(scan.renamed_indices)]

\* a test that also counts the files skipped as unchanged
has_changes_counts_skipped(stats) ==
  stats.processed > 0 \/ stats.deleted > 0 \/ stats.renamed > 0 \/ stats.skipped > 0

has_changes(stats) == stats.processed > 0 \/ stats.deleted > 0 \/ stats.renamed > 0

\* the inverted index handed to the commit (lines 240-298)
UpdatedInverted(existing_inv_index, scan) ==
  LET content_changed == scan.new_or_updated_indices # <<>> \/ scan.deleted_file_paths # <<>>
      base == IF content_changed
              THEN build_incremental(existing_inv_index, scan.index, scan.new_or_updated_indices)
              ELSE [(IF existing_inv_index = None THEN InvertedIndexNew ELSE existing_inv_index)
                      EXCEPT !.total_documents = scan.index.total_documents]
      pruned == IF scan.deleted_file_paths # <<>>
                THEN remove_deleted_documents_by_paths(base, scan.deleted_file_paths, scan.index)
                ELSE base
  IN remove_duplicate_entries(pruned)

\* line 301: the save and its ? operator
SavedResult(saved, scan) ==
  [files |-> saved.files, ok |-> saved.pc = "ok", committed |-> saved.pc = "ok",
   stats |-> UpdateStats(scan), scan |-> scan]

\* lines 235-310: what the update returns once the scan is done
UpdateResult(files, existing_inv_index, scan) ==
  IF has_changes(UpdateStats(scan))
  THEN SavedResult(save_indices_atomically(files, scan.index,
                                           UpdatedInverted(existing_inv_index, scan)),
                   scan)
  ELSE [files |-> files, ok |-> TRUE, committed |-> FALSE,
        stats |-> UpdateStats(scan), scan |-> scan]

perform_update_with_lock(files, folder, order) ==
  UpdateResult(files, LoadExistingInv(files),
               process_folder_incremental(folder, order, LoadExistingDoc(files)))

\* ------------------------------------------------------------------------
\* State
\* ------------------------------------------------------------------------
VARIABLES
  disk,   \* the document folder: path -> NoFile or the file's metadata
  fs,     \* the index files and their temp and backup siblings
  last,   \* ghost: what the last update cycle did
  ops,    \* number of changes made to the folder so far
  cycles, \* number of update cycles run so far
  saver,  \* the call of save_indices_atomically in progress
  pre,    \* ghost: the live pair when that call began
  commits, \* number of commits begun so far
  recov,  \* ghost: the crash the program last recovered from
  crashes, \* number of crashes so far
  reader, \* a reload in progress: its position and the forward index it read
  snapshot, \* the (forward, inverted) pair installed in the search engine
  lockPath, \* the inode index_update.lock names, NoInode when the path is free
  inodeCount, \* number of lock-file inodes created so far
  proc,   \* the callers of the update: position, open lock file, lock held
  text,   \* a text handed to the indexer and to the query pipeline
  norm,   \* what the indexer, the query pipeline and the stemmers made of it
  request, \* a search request: query, mode, view mode
  response \* the answer of SearchEngine::search to the request

idxVars == <<disk, last, ops, cycles>>

commitVars == <<saver, pre, commits, recov, crashes, reader, snapshot>>

lockVars == <<lockPath, inodeCount, proc>>

queryVars == <<text, norm, request, response>>

vars == <<disk, fs, last, ops, cycles, saver, pre, commits, recov, crashes, reader, snapshot,
          lockPath, inodeCount, proc, text, norm, request, response>>

NoCycle == [ran |-> FALSE]

IdleSaver == [pc |-> "idle", attempts |-> 0, doc |-> NoFile, inv |-> NoFile]

LivePair(files) == [doc |-> files["doc"], inv |-> files["inv"]]

\* SearchEngine::new: an empty forward index and no inverted index
NewEngine == [index |-> NoFile, inverted_index |-> None]

InitIdx ==
  /\ disk = [p \in Paths |-> NoFile]
  /\ last = NoCycle
  /\ ops = 0
  /\ cycles = 0

InitCommit ==
  /\ saver = IdleSaver
  /\ pre = LivePair(NoFiles)
  /\ commits = 0
  /\ recov = None
  /\ crashes = 0
  /\ reader = [pc |-> "idle", doc |-> NoFile]
  /\ snapshot = NewEngine

InitLock ==
  /\ lockPath = 0
  /\ inodeCount = 0
  /\ proc = [p \in 1..NumProcs |-> [pc |-> "idle", fd |-> 0, held |-> FALSE, changes |-> FALSE,
                                    error |-> "none", save |-> IdleSaver, repaired |-> NoFile]]

\* the search side before any request
NoNorm == [indexed |-> None, queried |-> None, stems |-> None, built |-> None]

InitQuery ==
  /\ text = <<>>
  /\ norm = NoNorm
  /\ request = None
  /\ response = None

Init == InitIdx /\ InitCommit /\ InitLock /\ InitQuery /\ fs = NoFiles

\* ------------------------------------------------------------------------
\* The folder changes between cycles
\* ------------------------------------------------------------------------
AddFile ==
  \E p \in Paths, b \in Bodies, t \in 1..MaxTime :
    /\ ops < MaxOps
    /\ disk[p] = NoFile
    /\ disk' = [disk EXCEPT ![p] = FileMeta(b, t)]
    /\ ops' = ops + 1
    /\ UNCHANGED <<queryVars, fs, last, cycles, commitVars, lockVars>>

ModifyFile ==
  \E p \in Paths, b \in Bodies, t \in 1..MaxTime :
    /\ ops < MaxOps
    /\ disk[p] # NoFile
    /\ disk[p] # FileMeta(b, t)
    /\ disk' = [disk EXCEPT ![p] = FileMeta(b, t)]
    /\ ops' = ops + 1
    /\ UNCHANGED <<queryVars, fs, last, cycles, commitVars, lockVars>>

MoveFile ==
  \E p \in Paths, q \in Paths :
    /\ ops < MaxOps
    /\ disk[p] # NoFile
    /\ disk[q] = NoFile
    /\ disk' = [disk EXCEPT ![q] = disk[p], ![p] = NoFile]
    /\ ops' = ops + 1
    /\ UNCHANGED <<queryVars, fs, last, cycles, commitVars, lockVars>>

DeleteFile ==
  \E p \in Paths :
    /\ ops < MaxOps
    /\ disk[p] # NoFile
    /\ disk' = [disk EXCEPT ![p] = NoFile]
    /\ ops' = ops + 1
    /\ UNCHANGED <<queryVars, fs, last, cycles, commitVars, lockVars>>

\* one call of perform_update_with_lock by the only updater
UpdateCycle ==
  \E order \in Perms({p \in Paths : disk[p] # NoFile}) :
    \E r \in {perform_update_with_lock(fs, disk, order)} :
       /\ cycles < MaxCycles
       /\ cycles' = cycles + 1
       /\ fs' = r.files
       /\ last' = [ran |-> TRUE, committed |-> r.committed, ok |-> r.ok, stats |-> r.stats,
                   prev |-> LivePair(fs), folder |-> disk, index |-> r.scan.index,
                   origin |-> r.scan.origin, marks |-> r.scan.marks,
                   removed |-> r.scan.removed,
                   new_or_updated_indices |-> r.scan.new_or_updated_indices,
                   renamed_indices |-> r.scan.renamed_indices,
                   deleted_file_paths |-> r.scan.deleted_file_paths]
       /\ UNCHANGED <<queryVars, disk, ops, commitVars, lockVars>>

NextIdx == AddFile \/ ModifyFile \/ MoveFile \/ DeleteFile \/ UpdateCycle

Spec == Init /\ [][NextIdx]_vars

\* ------------------------------------------------------------------------
\* The commit step by step, with failing calls, a crash and a reader
\* (checked under SpecCommit).  The contents committed are abstract: the
\* pair written by commit n is (Forward(n), Inverted(n)).
\* ------------------------------------------------------------------------
Forward(n) == [kind |-> "forward", commit |-> n, total_documents |-> n]
Inverted(n) == [kind |-> "inverted", commit |-> n, total_documents |-> n]

\* cleanup_temp_files, for the siblings the commit uses
cleanup_temp_files(files) ==
  [f \in FileNames |-> IF f \in {"doc", "inv"} THEN files[f] ELSE NoFile]

SavePcs == {"clean", "write_doc", "write_inv", "backup_doc", "backup_inv",
            "remove_doc", "rename_doc", "remove_inv", "rename_inv", "remove_backups"}

\* an update with changes reaches its commit: the caller has removed stale
\* siblings (cleanup_temp_files), the new pair is built, the save begins
BeginUpdate ==
  /\ saver.pc = "idle"
  /\ commits < MaxCommits
  /\ commits' = commits + 1
  /\ fs' = cleanup_temp_files(fs)
  /\ saver' = [pc |-> "clean", attempts |-> 0,
               doc |-> Forward(commits + 1), inv |-> Inverted(commits + 1)]
  /\ pre' = LivePair(fs)
  /\ recov' = None
  /\ UNCHANGED <<queryVars, idxVars, lockVars, crashes, reader, snapshot>>

\* the next file-system call of save_indices_atomically, failing or not
SaveCall ==
  /\ saver.pc \in SavePcs
  /\ \E fault \in BOOLEAN :
       LET st == SaveStep([files |-> fs, pc |-> saver.pc, attempts |-> saver.attempts,
                           doc |-> saver.doc, inv |-> saver.inv], fault)
       IN /\ fs' = st.files
          /\ saver' = [saver EXCEPT !.pc = st.pc, !.attempts = st.attempts]
  /\ UNCHANGED <<queryVars, idxVars, lockVars, pre, commits, recov, crashes, reader, snapshot>>

\* save_indices_atomically returned Ok
SaveReturnsOk ==
  /\ saver.pc = "ok"
  /\ saver' = IdleSaver
  /\ UNCHANGED <<queryVars, idxVars, lockVars, fs, pre, commits, recov, crashes, reader, snapshot>>

\* save_indices_atomically returned Err: the caller removes the siblings
SaveReturnsErr ==
  /\ saver.pc = "err"
  /\ saver' = IdleSaver
  /\ fs' = cleanup_temp_files(fs)
  /\ UNCHANGED <<queryVars, idxVars, lockVars, pre, commits, recov, crashes, reader, snapshot>>

\* the process is killed inside save_indices_atomically, then started again:
\* the restarted program runs cleanup_temp_files before its next update
CrashAndRestart ==
  /\ saver.pc \in SavePcs
  /\ crashes < MaxCrashes
  /\ crashes' = crashes + 1
  /\ fs' = cleanup_temp_files(fs)
  /\ recov' = [at |-> saver.pc, pre |-> pre,
               new |-> [doc |-> saver.doc, inv |-> saver.inv]]
  /\ saver' = IdleSaver
  /\ UNCHANGED <<queryVars, idxVars, lockVars, pre, commits, reader, snapshot>>

\* SearchEngine::reload, first half: read and parse the forward file
ReloadReadsForward ==
  /\ reader.pc = "idle"
  /\ Exists(fs, "doc")
  /\ reader' = [pc |-> "have_doc", doc |-> fs["doc"]]
  /\ UNCHANGED <<queryVars, idxVars, lockVars, fs, saver, pre, commits, recov, crashes, snapshot>>

\* a search holds the mutex of the engine's data
DataLocked == request # None /\ request.pc \in {"locked", "candidates", "checked"}

\* an install that does not wait for the mutex
ReloadInstalls_without_lock ==
  /\ reader.pc = "have_doc"
  /\ snapshot' = [index |-> reader.doc,
                  inverted_index |-> IF Exists(fs, "inv") THEN fs["inv"] ELSE None]
  /\ reader' = [pc |-> "idle", doc |-> NoFile]
  /\ UNCHANGED <<queryVars, idxVars, lockVars, fs, saver, pre, commits, recov, crashes>>

\* SearchEngine::reload, second half: load the inverted file if it exists
\* and install the pair under the mutex
ReloadInstalls ==
  /\ reader.pc = "have_doc"
  /\ ~DataLocked
  /\ snapshot' = [index |-> reader.doc,
                  inverted_index |-> IF Exists(fs, "inv") THEN fs["inv"] ELSE None]
  /\ reader' = [pc |-> "idle", doc |-> NoFile]
  /\ UNCHANGED <<queryVars, idxVars, lockVars, fs, saver, pre, commits, recov, crashes>>

NextCommit ==
  \/ BeginUpdate \/ SaveCall \/ SaveReturnsOk \/ SaveReturnsErr
  \/ CrashAndRestart \/ ReloadReadsForward \/ ReloadInstalls

SpecCommit == Init /\ [][NextCommit]_vars

\* ------------------------------------------------------------------------
\* The update lock and the writers of the index files (checked under
\* SpecLock).  index_update.lock is a path that names an inode; an advisory
\* lock belongs to an open file of an inode, not to the path.  A process is
\* one caller of AutoIndexer::perform_incremental_update.  Every update that
\* finds changes adds one document, so commit n writes indices with
\* total_documents = n.
\* ------------------------------------------------------------------------
Procs == 1..NumProcs

NoInode == 0

IdleProc == [pc |-> "idle", fd |-> NoInode, held |-> FALSE, changes |-> FALSE,
             error |-> "none", save |-> IdleSaver, repaired |-> NoFile]

\* try_lock_exclusive on the open file fd: refused while another open file
\* of the same inode holds the lock
LockFree(procs, p) ==
  \A q \in Procs \ {p} : ~(procs[q].held /\ procs[q].fd = procs[p].fd)

\* lines 173-176: the lock is taken
LockedOutcome(procs, p) == [procs EXCEPT ![p].pc = "locked", ![p].held = TRUE]

\* a contended caller that falls through to the removal of the lock file
ContendedOutcome_removes_lock(L, p) ==
  [L EXCEPT !.procs[p] = [IdleProc EXCEPT !.pc = "failed", !.error = "contention"],
            !.path = NoInode]

\* lines 177-179: the early return on contention; lock_file is dropped, and
\* nothing else is touched
ContendedOutcome(L, p) ==
  [L EXCEPT !.procs[p] = [IdleProc EXCEPT !.pc = "failed", !.error = "contention"]]

\* InvertedIndex::save_to_file without a failing call: backup, temp, rename
save_to_file(files, index) ==
  LET f1 == IF Exists(files, "inv") THEN [files EXCEPT !["inv_bak"] = files["inv"]] ELSE files
      f2 == [f1 EXCEPT !["inv_tmp"] = index]
      f3 == RenameFile(f2, "inv_tmp", "inv")
  IN RemoveFile(f3, "inv_bak")

\* the calls of save_indices_atomically up to the rename of the forward file
RECURSIVE RunSaveFirstHalf(_)
RunSaveFirstHalf(st) ==
  IF st.pc \in {"remove_inv", "ok", "err"} THEN st ELSE RunSaveFirstHalf(SaveStep(st, FALSE))

\* validate_indices up to its decision: Err when a file is missing, else
\* the repaired inverted index when the totals differ, else nothing to do
ValidateDecision(files) ==
  IF ~Exists(files, "doc") \/ ~Exists(files, "inv") THEN [result |-> "err", repaired |-> NoFile]
  ELSE IF files["doc"].total_documents # files["inv"].total_documents
       THEN [result |-> "repair",
             repaired |-> [files["inv"] EXCEPT !.total_documents = files["doc"].total_documents]]
       ELSE [result |-> "ok", repaired |-> NoFile]

\* SearchEngine::reload run to its end
reload(files, snap) ==
  IF Exists(files, "doc")
  THEN [index |-> files["doc"],
        inverted_index |-> IF Exists(files, "inv") THEN files["inv"] ELSE None]
  ELSE snap

\* lines 160-170 of the caller and of the callee: stale siblings are
\* removed, then the lock file is opened, created if the path names nothing
Call(p) ==
  /\ proc[p].pc = "idle"
  /\ lockPath # NoInode \/ inodeCount < MaxInodes
  /\ fs' = cleanup_temp_files(fs)
  /\ lockPath' = IF lockPath = NoInode THEN inodeCount + 1 ELSE lockPath
  /\ inodeCount' = IF lockPath = NoInode THEN inodeCount + 1 ELSE inodeCount
  /\ proc' = [proc EXCEPT ![p] = [IdleProc EXCEPT !.pc = "opened", !.fd = lockPath']]
  /\ UNCHANGED <<queryVars, idxVars, commitVars>>

TryLock(p) ==
  /\ proc[p].pc = "opened"
  /\ LET L == [path |-> lockPath, files |-> fs, procs |-> proc]
         R == IF LockFree(proc, p) THEN [L EXCEPT !.procs = LockedOutcome(proc, p)]
              ELSE ContendedOutcome(L, p)
     IN /\ proc' = R.procs
        /\ lockPath' = R.path
        /\ fs' = R.files
  /\ UNCHANGED <<queryVars, idxVars, commitVars, inodeCount>>

\* perform_update_with_lock when the scan finds no change
UpdateFindsNothing(p) ==
  /\ proc[p].pc = "locked"
  /\ proc' = [proc EXCEPT ![p].pc = "unlink", ![p].changes = FALSE]
  /\ UNCHANGED <<queryVars, idxVars, commitVars, fs, lockPath, inodeCount>>

\* perform_update_with_lock when the scan finds changes, up to the rename of
\* the forward file
UpdateCommitsForward(p) ==
  /\ proc[p].pc = "locked"
  /\ commits < MaxCommits
  /\ commits' = commits + 1
  /\ LET st == RunSaveFirstHalf(SaveStart(fs, Forward(commits + 1), Inverted(commits + 1)))
     IN /\ fs' = st.files
        /\ proc' = [proc EXCEPT ![p].changes = TRUE,
                                ![p].save = [pc |-> st.pc, attempts |-> st.attempts,
                                             doc |-> st.doc, inv |-> st.inv],
                                ![p].pc = "mid_commit"]
  /\ UNCHANGED <<queryVars, idxVars, saver, pre, recov, crashes, reader, snapshot, lockPath, inodeCount>>

\* the rest of save_indices_atomically and the return of the update body
UpdateCommitsInverted(p) ==
  /\ proc[p].pc = "mid_commit"
  /\ LET st == RunSave([files |-> fs, pc |-> proc[p].save.pc,
                        attempts |-> proc[p].save.attempts,
                        doc |-> proc[p].save.doc, inv |-> proc[p].save.inv])
     IN /\ fs' = st.files
        /\ proc' = [proc EXCEPT ![p].pc = "unlink", ![p].save = IdleSaver,
                                ![p].error = IF st.pc = "ok" THEN "none" ELSE "save"]
  /\ UNCHANGED <<queryVars, idxVars, commitVars, lockPath, inodeCount>>

\* line 187: the holder removes whatever the path names
UnlinkLockFile(p) ==
  /\ proc[p].pc = "unlink"
  /\ lockPath' = NoInode
  /\ proc' = [proc EXCEPT ![p].pc = "drop"]
  /\ UNCHANGED <<queryVars, idxVars, commitVars, fs, inodeCount>>

\* line 189: lock_file goes out of scope, which releases the lock
ReturnFromUpdate(p) ==
  /\ proc[p].pc = "drop"
  /\ proc' = [proc EXCEPT ![p].held = FALSE, ![p].fd = NoInode,
                          ![p].pc = IF proc[p].error # "none" THEN "failed"
                                    ELSE IF proc[p].changes THEN "validate" ELSE "idle"]
  /\ UNCHANGED <<queryVars, idxVars, commitVars, fs, lockPath, inodeCount>>

\* the Err arm of the caller (auto_indexer.rs lines 182-187)
CallerHandlesError(p) ==
  /\ proc[p].pc = "failed"
  /\ fs' = cleanup_temp_files(fs)
  /\ proc' = [proc EXCEPT ![p] = IdleProc]
  /\ UNCHANGED <<queryVars, idxVars, commitVars, lockPath, inodeCount>>

\* validate_indices, called after the update returned: it loads both files
Validate(p) ==
  /\ proc[p].pc = "validate"
  /\ LET d == ValidateDecision(fs)
     IN proc' = [proc EXCEPT ![p].pc = IF d.result = "repair" THEN "repair" ELSE "reload",
                             ![p].repaired = d.repaired]
  /\ UNCHANGED <<queryVars, idxVars, commitVars, fs, lockPath, inodeCount>>

\* validate_indices writes the repaired inverted index over the live file
RepairWrite(p) ==
  /\ proc[p].pc = "repair"
  /\ fs' = save_to_file(fs, proc[p].repaired)
  /\ proc' = [proc EXCEPT ![p].pc = "reload", ![p].repaired = NoFile]
  /\ UNCHANGED <<queryVars, idxVars, commitVars, lockPath, inodeCount>>

\* reload_search_engine, the last step of the caller
ReloadAfterUpdate(p) ==
  /\ proc[p].pc = "reload"
  /\ snapshot' = reload(fs, snapshot)
  /\ proc' = [proc EXCEPT ![p] = IdleProc]
  /\ UNCHANGED <<queryVars, idxVars, saver, pre, commits, recov, crashes, reader, fs, lockPath, inodeCount>>

NextLock ==
  \E p \in Procs :
    \/ Call(p) \/ TryLock(p) \/ UpdateFindsNothing(p) \/ UpdateCommitsForward(p)
    \/ UpdateCommitsInverted(p) \/ UnlinkLockFile(p) \/ ReturnFromUpdate(p)
    \/ CallerHandlesError(p) \/ Validate(p) \/ RepairWrite(p) \/ ReloadAfterUpdate(p)

SpecLock == Init /\ [][NextLock]_vars


\* ------------------------------------------------------------------------
\* Normalisation of texts (checked under SpecText): the text is drawn from
\* the concatenations of at most MaxSegs segments
\* ------------------------------------------------------------------------
Segments ==
  {Fed, <<"i", "r">>, <<"o", "r">>, <<"g", "o", "r">>, <<"k", "o", "t">>,
   <<"i">>, <<"a">>, <<"u">>, <<"ya">>, <<"j">>,
   SufEts, SufTsya, SufTsyu, SufOgo, SufOmu,
   <<Hyphen>>, <<",">>, <<Apostrophe>>, <<Space>>, <<"1">>, <<"lat_a">>, <<"UP_k">>}

RECURSIVE Concats(_)
Concats(n) ==
  IF n = 0 THEN {<<>>}
  ELSE Concats(n - 1) \cup {w \o s : w \in Concats(n - 1), s \in Segments}

TextInputs == Concats(MaxSegs)

InitText ==
  /\ InitIdx /\ InitCommit /\ InitLock /\ fs = NoFiles
  /\ text \in TextInputs
  /\ norm = NoNorm
  /\ request = None
  /\ response = None

\* the indexer extracts the stems of the text
NormalizeForIndex ==
  /\ norm.indexed = None
  /\ norm' = [norm EXCEPT !.indexed = [words |-> extract_words(text)]]
  /\ UNCHANGED <<idxVars, commitVars, lockVars, fs, text, request, response>>

\* the search engine derives its lookup keys from the text
NormalizeForQuery ==
  /\ norm.queried = None
  /\ norm' = [norm EXCEPT !.queried = [words |-> QueryWords(text)]]
  /\ UNCHANGED <<idxVars, commitVars, lockVars, fs, text, request, response>>

\* the three stemmers applied to a token, and again to their own result
StemToken ==
  /\ norm.stems = None
  /\ ~Contains(text, Space)
  /\ \E a \in {stem_word(text)}, b \in {search_stem_word(text)}, c \in {stemmer_stem_word(text)} :
       norm' = [norm EXCEPT !.stems =
                  [index |-> a, search |-> b, stemmer |-> c,
                   index2 |-> stem_word(a), search2 |-> search_stem_word(b),
                   stemmer2 |-> stemmer_stem_word(c)]]
  /\ UNCHANGED <<idxVars, commitVars, lockVars, fs, text, request, response>>

\* rebuild_from_scratch of a forward index whose only document has the
\* text as its only paragraph: the paragraph is added as document 0,
\* paragraph 0, and the index is cleaned up
IndexParagraph ==
  /\ norm.built = None
  /\ norm' = [norm EXCEPT !.built =
               remove_duplicate_entries(cleanup(
                 [InvertedIndexNew EXCEPT
                    !.word_to_docs = AddWords(@, extract_words(text), 0, 0),
                    !.total_documents = 1]))]
  /\ UNCHANGED <<idxVars, commitVars, lockVars, fs, text, request, response>>

NextText == NormalizeForIndex \/ NormalizeForQuery \/ StemToken \/ IndexParagraph

SpecText == InitText /\ [][NextText]_vars

\* ------------------------------------------------------------------------
\* Search (inverted_index.rs search_fast, search_engine.rs search)
\* ------------------------------------------------------------------------
QuickWindow == 170
ProximityLimit == 15

SearchModes == {"Quick", "Remaining", "Full"}

\* the document-id window [start, end) of a mode
Window(mode, total_docs) ==
  IF mode = "Quick"
  THEN [start |-> 0, end |-> IF total_docs > QuickWindow THEN QuickWindow ELSE total_docs]
  ELSE IF mode = "Remaining"
       THEN [start |-> IF total_docs > QuickWindow THEN QuickWindow ELSE 0, end |-> total_docs]
       ELSE [start |-> 0, end |-> total_docs]

\* the entries of a posting list whose document is inside the window
RECURSIVE InWindow(_, _)
InWindow(dps, win) ==
  IF dps = <<>> THEN <<>>
  ELSE IF Head(dps).doc_index >= win.start /\ Head(dps).doc_index < win.end
       THEN <<Head(dps)>> \o InWindow(Tail(dps), win)
       ELSE InWindow(Tail(dps), win)

\* collect() of (doc_index, positions) pairs into a HashMap: a later entry
\* of the same document replaces an earlier one
Posting(dps) ==
  [d \in {dps[i].doc_index : i \in 1..Len(dps)} |->
     Range(dps[CHOOSE i \in 1..Len(dps) :
                 /\ dps[i].doc_index = d
                 /\ \A j \in (i + 1)..Len(dps) : dps[j].doc_index # d].paragraph_positions)]

\* sort_by_key and sort_by: a stable sort by ascending key
sort_by_key(s, key(_)) ==
  LET rank(i) == Cardinality({j \in 1..Len(s) : \/ key(s[j]) < key(s[i])
                                                 \/ (key(s[j]) = key(s[i]) /\ j < i)}) + 1
  IN [k \in 1..Len(s) |-> s[CHOOSE i \in 1..Len(s) : rank(i) = k]]

\* candidate_docs.retain for each of the other words in turn
RECURSIVE Intersect(_, _, _, _)
Intersect(candidate_docs, inv, other_words, win) ==
  IF other_words = <<>> \/ DOMAIN candidate_docs = {} THEN candidate_docs
  ELSE LET docs_with_current_word == Posting(InWindow(inv.word_to_docs[Head(other_words)], win))
       IN Intersect([d \in DOMAIN candidate_docs \cap DOMAIN docs_with_current_word |->
                       candidate_docs[d] \cup docs_with_current_word[d]],
                    inv, Tail(other_words), win)

\* the result maps each candidate document to its sorted paragraph positions;
\* the order of the returned Vec is the iteration order of a HashMap
search_fast(inv, query_words, document_index, mode) ==
  LET win == Window(mode, Len(document_index.documents))
      filtered_count(word) == Len(InWindow(inv.word_to_docs[word], win))
      n == Len(query_words)
  IN IF n = 0 \/ \E i \in 1..n : query_words[i] \notin DOMAIN inv.word_to_docs
     THEN EmptyMap
     ELSE LET best_first_word_idx ==
                CHOOSE i \in 1..n :
                  /\ \A j \in 1..n : filtered_count(query_words[i]) <= filtered_count(query_words[j])
                  /\ \A j \in 1..(i - 1) :
                       filtered_count(query_words[j]) > filtered_count(query_words[i])
              other_words ==
                sort_by_key([k \in 1..(n - 1) |->
                               query_words[IF k < best_first_word_idx THEN k ELSE k + 1]],
                            filtered_count)
              final == Intersect(Posting(InWindow(inv.word_to_docs[query_words[best_first_word_idx]],
                                                  win)),
                                 inv, other_words, win)
          IN [d \in DOMAIN final |-> SortedSeqOfSet(final[d])]

\* str::find from a character offset: the offset of the first occurrence, -1 for None
find(hay, word, from) ==
  LET hits == {i \in from..(Len(hay) - Len(word)) : SubSeq(hay, i + 1, i + Len(word)) = word}
  IN IF hits = {} THEN -1 ELSE CHOOSE i \in hits : \A j \in hits : i <= j

\* the loop of check_words_proximity from word i on; the distance between
\* two finds is the length of the text between them, which a str counts in
\* bytes (the properties restate the walk with the length in characters)
RECURSIVE ProximityWalk(_, _, _, _, _)
ProximityWalk(hay, query_words, i, last_position, in_bytes) ==
  IF i > Len(query_words) THEN TRUE
  ELSE LET absolute_pos == find(hay, query_words[i], last_position)
       IN IF absolute_pos = -1 THEN FALSE
          ELSE IF i > 1 /\ (IF in_bytes
                             THEN ByteLen(SubSeq(hay, last_position + 1, absolute_pos))
                             ELSE absolute_pos - last_position) > ProximityLimit
               THEN FALSE
               ELSE ProximityWalk(hay, query_words, i + 1,
                                  absolute_pos + Len(query_words[i]), in_bytes)

\* a check that lets every paragraph through
check_words_proximity_any_gap(paragraph, query_words) == TRUE

check_words_proximity(paragraph, query_words) ==
  \/ Len(query_words) < 2
  \/ ProximityWalk(StripApostrophes(to_lowercase(paragraph)), query_words, 1, 0, TRUE)

RECURSIVE trim(_)
trim(s) ==
  IF s # <<>> /\ Head(s) = Space THEN trim(Tail(s))
  ELSE IF s # <<>> /\ s[Len(s)] = Space THEN trim(DropLast(s, 1))
       ELSE s

Pidstava == <<"p", "i", "d", "s", "t", "a", "v", "a">>

\* the body of the loop over paragraphs: does the paragraph become a match
ParagraphMatches(paragraph, query_words, view_mode) ==
  LET paragraph_lower == to_lowercase(paragraph)
      normalized_paragraph == StripApostrophes(paragraph_lower)
      is_name_search == Len(query_words) >= 2 /\ Len(query_words) <= 3
  IN /\ ~(view_mode = "fragments" /\ starts_with(trim(paragraph_lower), Pidstava))
     /\ \A i \in 1..Len(query_words) : find(normalized_paragraph, query_words[i], 0) # -1
     /\ (~is_name_search \/ check_words_proximity(normalized_paragraph, query_words))

\* DocumentRecord::get_paragraphs: the stored paragraphs, in order
get_paragraphs(document) == document.content

\* document_matches of one document, for the positions looked at
DocumentMatches(document, positions, query_words, view_mode) ==
  LET paragraphs == get_paragraphs(document)
      kept == SortedSeqOfSet({p \in positions : /\ p < Len(paragraphs)
                                                /\ ParagraphMatches(paragraphs[p + 1], query_words,
                                                                    view_mode)})
  IN [i \in 1..Len(kept) |-> [context |-> paragraphs[kept[i] + 1], position |-> kept[i]]]

\* what the paragraph loop is run on: the result of search_fast, or, without
\* an inverted index, every paragraph of every document
Candidates(data, query_words, mode) ==
  IF data.inverted_index # None
  THEN search_fast(data.inverted_index, query_words, data.index, mode)
  ELSE [d \in 0..(Len(data.index.documents) - 1) |->
          [i \in 1..Len(get_paragraphs(DocAt(data.index, d))) |-> i - 1]]

\* the characters \d matches: the ASCII digits and, \d being a Unicode class,
\* the decimal digits of other scripts, which parse::<u32> rejects
AsciiDigitValue == ("0" :> 0) @@ ("1" :> 1) @@ ("2" :> 2) @@ ("3" :> 3) @@ ("9" :> 9)
DecimalDigits == DOMAIN AsciiDigitValue \cup {"ar_3"}

\* Path::file_name: what follows the last separator
file_name(file_path) ==
  LET separators == {i \in 1..Len(file_path) : file_path[i] = "/"}
  IN IF separators = {} THEN file_path
     ELSE SubSeq(file_path, (CHOOSE i \in separators : \A j \in separators : j <= i) + 1,
                 Len(file_path))

\* str::parse::<u32> of a run of \d characters: -1 for Err
RECURSIVE parse_u32(_)
parse_u32(digits) ==
  IF digits = <<>> THEN 0
  ELSE IF digits[Len(digits)] \notin DOMAIN AsciiDigitValue
          \/ parse_u32(DropLast(digits, 1)) = -1
       THEN -1
       ELSE 10 * parse_u32(DropLast(digits, 1)) + AsciiDigitValue[digits[Len(digits)]]

\* the leftmost match of DATE_REGEX in the file name, parsed and range-checked:
\* <<year, month, day>>, or None
extract_date_from_filename(file_path) ==
  LET filename == file_name(file_path)
      MatchAt(i) == /\ \A k \in {0, 1, 3, 4, 6, 7, 8, 9} : filename[i + k] \in DecimalDigits
                   /\ filename[i + 2] = "." /\ filename[i + 5] = "."
      hits == {i \in 1..(Len(filename) - 9) : MatchAt(i)}
  IN IF hits = {} THEN None
     ELSE LET i == CHOOSE h \in hits : \A g \in hits : h <= g
              day == parse_u32(SubSeq(filename, i, i + 1))
              month == parse_u32(SubSeq(filename, i + 3, i + 4))
              year == parse_u32(SubSeq(filename, i + 6, i + 9))
          IN IF /\ day # -1 /\ month # -1 /\ year # -1
                /\ day >= 1 /\ day <= 31 /\ month >= 1 /\ month <= 12 /\ year >= 1900
             THEN <<year, month, day>> ELSE None

\* cmp of two numbers as -1 (Less), 0 (Equal), 1 (Greater)
cmp(x, y) == IF x < y THEN -1 ELSE IF x = y THEN 0 ELSE 1

compare_dates_oldest_first(date1, date2) ==
  IF date1 # None /\ date2 # None
  THEN IF cmp(date1[1], date2[1]) # 0 THEN cmp(date1[1], date2[1])
       ELSE IF cmp(date1[2], date2[2]) # 0 THEN cmp(date1[2], date2[2])
            ELSE cmp(date1[3], date2[3])
  ELSE IF date1 # None THEN -1
       ELSE IF date2 # None THEN 1 ELSE 0

compare_dates(date1, date2) ==
  IF date1 # None /\ date2 # None
  THEN IF cmp(date2[1], date1[1]) # 0 THEN cmp(date2[1], date1[1])
       ELSE IF cmp(date2[2], date1[2]) # 0 THEN cmp(date2[2], date1[2])
            ELSE cmp(date2[3], date1[3])
  ELSE IF date1 # None THEN -1
       ELSE IF date2 # None THEN 1 ELSE 0

\* the comparator of results.sort_by; the field date of a result holds
\* extract_date_from_filename of its file_path
CompareResults(a, b) ==
  LET by_date == compare_dates(a.date, b.date)
  IN IF by_date # 0 THEN by_date ELSE cmp(Len(b.matches), Len(a.matches))

\* sort_by: a stable sort by a comparator
sort_by(s, compare(_, _)) ==
  LET rank == [i \in 1..Len(s) |->
                 Cardinality({j \in 1..Len(s) : compare(s[j], s[i]) < (IF j < i THEN 1 ELSE 0)}) + 1]
  IN [k \in 1..Len(s) |-> s[CHOOSE i \in 1..Len(s) : rank[i] = k]]

\* SearchEngine::search; hash_order is the order in which the candidates'
\* HashMap is iterated, the candidates are passed for the record of the call
search(data, query, mode, view_mode, hash_order, candidates) ==
  LET query_words == QueryWords(query)
      visited == IF data.inverted_index # None
                 THEN SeqFilterIn(hash_order, {d \in DOMAIN candidates : HasDoc(data.index, d)})
                 ELSE SortedSeqOfSet(DOMAIN candidates)
      found == [i \in 1..Len(visited) |->
                  [doc |-> visited[i],
                   file_path |-> DocAt(data.index, visited[i]).file_path,
                   date |-> extract_date_from_filename(DocAt(data.index, visited[i]).file_path),
                   matches |-> DocumentMatches(DocAt(data.index, visited[i]),
                                               Range(candidates[visited[i]]),
                                               query_words, view_mode)]]
      results == SeqFilterIn(found, {r \in Range(found) : r.matches # <<>>})
  IN IF trim(query) = <<>> \/ query_words = <<>> THEN <<>>
     ELSE sort_by(results, CompareResults)

\* ------------------------------------------------------------------------
\* Search requests (checked under SpecSearch): the engine holds a forward
\* index of at most MaxDocs documents with the inverted index built from
\* it, with one built from another forward index, or with none
\* ------------------------------------------------------------------------
SearchContents ==
  {<<TxtKotaPes>>, <<TxtPes, TxtRybaKota>>, <<TxtPidstava, TxtKotaPes>>, <<TxtSigma>>}
  \cup {<<g>> : g \in GapTexts}

\* file paths of the forward indexes, as texts
PlainNames == <<<<"lat_a">>, <<"lat_a", "lat_a">>, <<"lat_a", "lat_a", "lat_a">>>>

\* the forward index of the documents with these paths and these paragraphs
RECURSIVE IndexOf(_, _)
IndexOf(paths, contents) ==
  IF contents = <<>> THEN DocumentIndexNew
  ELSE LET front == IndexOf(paths, DropLast(contents, 1))
           document == DocumentRecord(paths[Len(contents)],
                                      [size |-> Len(contents[Len(contents)]), mtime |-> 1],
                                      contents[Len(contents)])
       IN [documents |-> Append(front.documents, document),
           total_documents |-> front.total_documents + 1,
           total_words |-> front.total_words + document.word_count]

ForwardIndexes ==
  {IndexOf(PlainNames, contents) :
     contents \in UNION {[1..n -> SearchContents] : n \in 0..MaxDocs}}

\* an inverted index left from a forward index that has since changed
StaleInverted ==
  rebuild_from_scratch(IndexOf(PlainNames, <<<<TxtPes, TxtRybaKota>>, <<TxtKotaPes>>, <<TxtPes, TxtKotaPes>>>>))

Queries ==
  {<<"k", "o", "t", "a">>, <<"UP_p", "e", "s">>, <<"r", "y", "b", "a">>,
   <<"k", "o", "t", " ", "p", "e", "s">>, <<"p", "e", "s", " ", "k", "o", "t", "a">>,
   <<"k", "o", "t", " ", "p", "e", "s", " ", "p", "e", "s">>,
   <<"k", "o", "t", " ", "p", "e", "s", " ", "k", "o", "t", " ", "p", "e", "s">>,
   <<"lat_a", "fsigma">>, <<"1">>, <<" ">>}

\* view_mode: None, Some("fragments"), Some("full-document")
ViewModes == {"absent", "fragments", "full-document"}

InitSearch ==
  /\ InitIdx /\ InitLock /\ InitQuery /\ fs = NoFiles
  /\ saver = IdleSaver
  /\ pre = LivePair(NoFiles)
  /\ commits = 0
  /\ recov = None
  /\ crashes = 0
  /\ reader = [pc |-> "idle", doc |-> NoFile]
  /\ \E index \in ForwardIndexes :
       \E inverted_index \in {rebuild_from_scratch(index), StaleInverted, None} :
         snapshot = [index |-> index, inverted_index |-> inverted_index]

\* POST /search: the handler picks the mode from full_search
search_handler ==
  /\ request = None
  /\ \E query \in Queries, full_search \in BOOLEAN, view_mode \in ViewModes :
       request' = [query |-> query,
                   mode |-> IF full_search THEN "Remaining" ELSE "Quick",
                   view_mode |-> view_mode]
  /\ UNCHANGED <<idxVars, commitVars, lockVars, fs, text, norm, response>>

\* a direct call of SearchEngine::search over the whole index
SearchWholeIndex ==
  /\ request = None
  /\ \E query \in Queries, view_mode \in ViewModes :
       request' = [query |-> query, mode |-> "Full", view_mode |-> view_mode]
  /\ UNCHANGED <<idxVars, commitVars, lockVars, fs, text, norm, response>>

\* the engine answers the request from its snapshot
RunSearch ==
  /\ request # None
  /\ response = None
  /\ \E candidates \in {Candidates(snapshot, QueryWords(request.query), request.mode)} :
       \E hash_order \in Perms(DOMAIN candidates) :
         response' = [candidates |-> candidates,
                      results |-> search(snapshot, request.query, request.mode,
                                         request.view_mode, hash_order, candidates)]
  /\ UNCHANGED <<idxVars, commitVars, lockVars, fs, text, norm, request>>

\* the response is sent; the engine waits for the next request
SendResponse ==
  /\ response # None
  /\ request' = None
  /\ response' = None
  /\ UNCHANGED <<idxVars, commitVars, lockVars, fs, text, norm>>

NextSearch == search_handler \/ SearchWholeIndex \/ RunSearch \/ SendResponse

SpecSearch == InitSearch /\ [][NextSearch]_vars

\* ------------------------------------------------------------------------
\* Operations on the inverted index (checked under SpecPostings): documents
\* are added to and removed from an inverted index, at most MaxOps times;
\* snapshot.index holds the surviving document of every id, an id without
\* one holding a document without paragraphs
\* ------------------------------------------------------------------------
NoDocuments == IndexOf(PlainNames, [i \in 1..MaxDocs |-> <<>>])

InitPostings ==
  /\ InitIdx /\ InitLock /\ InitQuery /\ fs = NoFiles
  /\ saver = IdleSaver
  /\ pre = LivePair(NoFiles)
  /\ commits = 0
  /\ recov = None
  /\ crashes = 0
  /\ reader = [pc |-> "idle", doc |-> NoFile]
  /\ snapshot = [index |-> NoDocuments, inverted_index |-> InvertedIndexNew]

\* add_document_to_index(doc_idx, document)
AddDocument ==
  /\ ops < MaxOps
  /\ \E d \in 0..(MaxDocs - 1), content \in SearchContents :
       \E document \in {DocumentRecord(PlainNames[d + 1], [size |-> Len(content), mtime |-> 1],
                                         content)} :
         /\ snapshot' = [index |-> [snapshot.index EXCEPT !.documents[d + 1] = document],
                         inverted_index |->
                           add_document_to_index(snapshot.inverted_index, d, document)]
         /\ request' = [op |-> "add", doc |-> d,
                        live |-> DocAt(snapshot.index, d).content # <<>>]
  /\ ops' = ops + 1
  /\ UNCHANGED <<disk, last, cycles, fs, saver, pre, commits, recov, crashes, reader,
                 lockVars, text, norm, response>>

\* remove_document_from_index(doc_idx)
RemoveDocument ==
  /\ ops < MaxOps
  /\ \E d \in 0..(MaxDocs - 1) :
       /\ snapshot' = [index |-> [snapshot.index EXCEPT !.documents[d + 1].content = <<>>],
                       inverted_index |->
                         remove_document_from_index(snapshot.inverted_index, d)]
       /\ request' = [op |-> "remove", doc |-> d,
                      live |-> DocAt(snapshot.index, d).content # <<>>]
  /\ ops' = ops + 1
  /\ UNCHANGED <<disk, last, cycles, fs, saver, pre, commits, recov, crashes, reader,
                 lockVars, text, norm, response>>

NextPostings == AddDocument \/ RemoveDocument

SpecPostings == InitPostings /\ [][NextPostings]_vars

\* ------------------------------------------------------------------------
\* Order of the results (checked under SpecOrder): search requests on forward
\* indexes of at most MaxResults documents that hold the word kota in one
\* or in two paragraphs; the file names carry a date, a date after a match
\* that is no date, or a date in the directory and foreign digits in the name
\* ------------------------------------------------------------------------
DatedNames ==
  {<<"0", "1", ".", "0", "2", ".", "2", "0", "2", "3">>,
   <<"3", "1", ".", "0", "1", ".", "2", "0", "2", "3">>,
   <<"lat_a", "0", "1", ".", "0", "2", ".", "2", "0", "2", "2", "lat_a">>,
   <<"3", "9", ".", "0", "1", ".", "2", "0", "2", "3", " ", "0", "1", ".", "0", "3", ".", "2", "0", "2", "3">>,
   <<"0", "1", ".", "0", "3", ".", "2", "0", "2", "3", "/", "0", "ar_3", ".", "0", "1", ".", "2", "0", "2", "3">>}

OrderContents == {<<TxtKotaPes>>, <<TxtKotaPes, TxtPidstava>>}

OrderIndexes ==
  UNION {{IndexOf(paths, contents) : contents \in [1..Len(paths) -> OrderContents]} :
           paths \in UNION {{f \in [1..n -> DatedNames] :
                                \A i, j \in 1..n : i # j => f[i] # f[j]} :
                             n \in 0..MaxResults}}

InitOrder ==
  /\ InitIdx /\ InitLock /\ InitQuery /\ fs = NoFiles
  /\ saver = IdleSaver
  /\ pre = LivePair(NoFiles)
  /\ commits = 0
  /\ recov = None
  /\ crashes = 0
  /\ reader = [pc |-> "idle", doc |-> NoFile]
  /\ \E index \in OrderIndexes :
       snapshot = [index |-> index, inverted_index |-> rebuild_from_scratch(index)]

SpecOrder == InitOrder /\ [][NextSearch]_vars

\* ------------------------------------------------------------------------
\* The DOCX numbering extractor (docx_parser.rs), checked under
\* SpecNumbering: documents of at most MaxParagraphs paragraphs
\* ------------------------------------------------------------------------
MaxParagraphs == 4

Laquo == "laquo"

STYLE_LEVEL_MAP ==
  ("OiiSList1" :> 1) @@ ("Oii_S_List_1" :> 1) @@ ("OiiSList2" :> 2) @@ ("Oii_S_List_2" :> 2) @@
  ("OiiSList3" :> 3) @@ ("Oii_S_List_3" :> 3) @@ ("OiiSList4" :> 4) @@ ("Oii_S_List_4" :> 4)

Pogodzheno == <<"UP_p", "UP_o", "UP_g", "UP_o", "UP_d", "UP_zh", "UP_e", "UP_n", "UP_o">>
Pidgotovleno == <<"UP_d", "o", "k", "u", "m", "e", "n", "t", " ", "p", "i", "d", "g", "o", "t", "o", "v", "l", "e", "n", "o">>
SKIP_TEXTS == {Pogodzheno, Pidgotovleno}

BasisPrefix == <<"UP_p", "i", "d", "s", "t", "a", "v", "a", ":">>

\* the text after a leading run of characters of S
RECURSIVE SkipWhile(_, _)
SkipWhile(s, S) == IF s # <<>> /\ Head(s) \in S THEN SkipWhile(Tail(s), S) ELSE s

\* \d+(\.\d+)*\.\s+ at the start of s (\s* already consumed)
RECURSIVE NumberDotSpace(_)
NumberDotSpace(s) ==
  LET rest == SkipWhile(s, DecimalDigits)
  IN /\ rest # s
     /\ rest # <<>>
     /\ Head(rest) = "."
     /\ \/ (Len(rest) >= 2 /\ rest[2] = Space)
        \/ NumberDotSpace(Tail(rest))

NUMBERING_REGEX(s) == NumberDotSpace(SkipWhile(s, {Space}))

QUOTE_NUMBERING_REGEX(s) ==
  LET rest == SkipWhile(s, {Space})
  IN rest # <<>> /\ Head(rest) = Laquo /\ NumberDotSpace(SkipWhile(Tail(rest), {Space}))

BASIS_REGEX(s) == starts_with(SkipWhile(s, {Space}), BasisPrefix)

should_skip_text(s) == \E prefix \in SKIP_TEXTS : starts_with(s, prefix)

\* Option<usize> of a level and Option<String> of a style: levels start at 1
NoLevel == 0
NoStyle == ""
\* an Option<String> that is None
Absent == <<"absent">>

\* ilvl.parse::<usize>() + 1 when both ilvl and numId are present
get_numbering_level(num_pr) ==
  IF num_pr.ilvl # Absent /\ num_pr.num_id # Absent /\ parse_u32(num_pr.ilvl) >= 0
  THEN parse_u32(num_pr.ilvl) + 1
  ELSE NoLevel

get_style_level(style_name) ==
  IF style_name \in DOMAIN STYLE_LEVEL_MAP THEN STYLE_LEVEL_MAP[style_name] ELSE NoLevel

CurrentNumberingDefault == [level_1 |-> 0, level_2 |-> 0, level_3 |-> 0, level_4 |-> 0]

\* a step that leaves the deeper counters as they are
update_numbering_for_level_keeps_deeper(level, current_numbering, last_main_point) ==
  CASE level = 1 -> [current_numbering EXCEPT !.level_1 = last_main_point + 1]
    [] level = 2 -> [current_numbering EXCEPT !.level_2 = @ + 1]
    [] level = 3 -> [current_numbering EXCEPT !.level_3 = @ + 1]
    [] level = 4 -> [current_numbering EXCEPT !.level_4 = @ + 1]
    [] OTHER -> current_numbering

update_numbering_for_level(level, current_numbering, last_main_point) ==
  CASE level = 1 -> [level_1 |-> last_main_point + 1, level_2 |-> 0, level_3 |-> 0, level_4 |-> 0]
    [] level = 2 -> [current_numbering EXCEPT !.level_2 = @ + 1, !.level_3 = 0, !.level_4 = 0]
    [] level = 3 -> [current_numbering EXCEPT !.level_3 = @ + 1, !.level_4 = 0]
    [] level = 4 -> [current_numbering EXCEPT !.level_4 = @ + 1]
    [] OTHER -> current_numbering

DigitChars == <<"0", "1", "2", "3", "4", "5", "6", "7", "8", "9">>

\* the decimal digits format! writes for a usize
RECURSIVE Decimal(_)
Decimal(n) == IF n < 10 THEN <<DigitChars[n + 1]>> ELSE Decimal(n \div 10) \o <<DigitChars[(n % 10) + 1]>>

format_numbering(level, current_numbering) ==
  LET l1 == Decimal(current_numbering.level_1) \o <<".">>
      l2 == Decimal(current_numbering.level_2) \o <<".">>
      l3 == Decimal(current_numbering.level_3) \o <<".">>
      l4 == Decimal(current_numbering.level_4) \o <<".">>
  IN CASE level = 1 -> l1 \o <<Space>>
       [] level = 2 -> l1 \o l2 \o <<Space>>
       [] level = 3 -> l1 \o l2 \o l3 \o <<Space>>
       [] level = 4 -> l1 \o l2 \o l3 \o l4 \o <<Space>>
       [] OTHER -> <<>>

ParagraphInfoNew(s, style) ==
  [text |-> s, style |-> style, level |-> NoLevel, has_numbering |-> FALSE,
   calculated_number |-> Absent]

with_numbering(s, style, level, calculated_number) ==
  [text |-> s, style |-> style, level |-> level, has_numbering |-> TRUE,
   calculated_number |-> calculated_number]

\* the paragraph numbered at the level found, and the counters after it
Numbered(p, level, current_numbering, last_main_point) ==
  [info |-> with_numbering(p.text, p.style, level,
              format_numbering(level,
                update_numbering_for_level(level, current_numbering, last_main_point))),
   current_numbering |-> update_numbering_for_level(level, current_numbering, last_main_point)]

\* p: the trimmed text, the pStyle and the numPr collected for a paragraph
process_paragraph(p, current_numbering, last_main_point) ==
  LET plain == [info |-> ParagraphInfoNew(p.text, p.style), current_numbering |-> current_numbering]
      by_num_pr == IF p.num_pr = None THEN NoLevel ELSE get_numbering_level(p.num_pr)
      by_style == IF p.style = NoStyle THEN NoLevel ELSE get_style_level(p.style)
  IN IF BASIS_REGEX(p.text) THEN plain
     ELSE IF NUMBERING_REGEX(p.text) /\ ~QUOTE_NUMBERING_REGEX(p.text) THEN plain
     ELSE IF QUOTE_NUMBERING_REGEX(p.text) /\ p.num_pr # None
          THEN IF by_num_pr # NoLevel
               THEN Numbered(p, by_num_pr, current_numbering, last_main_point)
               ELSE plain
     ELSE IF QUOTE_NUMBERING_REGEX(p.text) THEN plain
     ELSE IF by_num_pr # NoLevel THEN Numbered(p, by_num_pr, current_numbering, last_main_point)
     ELSE IF by_style # NoLevel THEN Numbered(p, by_style, current_numbering, last_main_point)
     ELSE plain

\* format_paragraphs: a numbered paragraph opens a section, an unnumbered
\* one is appended to it after a line break; the sections are then split at
\* the line breaks again, so every paragraph comes out as a line of its own,
\* trimmed, unless it is empty
formatted_text(info) ==
  IF info.has_numbering /\ info.calculated_number # Absent
  THEN info.calculated_number \o info.text
  ELSE info.text

format_paragraphs(paragraphs_info) ==
  SeqFilterIn([i \in 1..Len(paragraphs_info) |-> trim(formatted_text(paragraphs_info[i]))],
              {trim(formatted_text(paragraphs_info[i])) : i \in 1..Len(paragraphs_info)} \ {<<>>})

TxtA == <<"lat_a">>

NumPr(ilvl, num_id) == [ilvl |-> ilvl, num_id |-> num_id]

Paragraph(s, style, num_pr) == [text |-> s, style |-> style, num_pr |-> num_pr]

\* the paragraphs a document is made of
ParagraphInputs ==
  {Paragraph(TxtA, "OiiSList1", None),
   Paragraph(TxtA, "OiiSList2", None),
   Paragraph(TxtA, "Oii_S_List_3", None),
   Paragraph(TxtA, "OiiSList4", None),
   Paragraph(TxtA, "Normal", NumPr(<<"0">>, <<"1">>)),
   Paragraph(<<Laquo, "1", ".", Space, "lat_a">>, "OiiSList1", NumPr(<<"1">>, <<"1">>)),
   Paragraph(<<"1", ".", "2", ".", Space, "lat_a">>, "OiiSList1", None),
   Paragraph(TxtA, NoStyle, NumPr(<<"9">>, <<"1">>)),
   Paragraph(Pogodzheno, "OiiSList1", None),
   Paragraph(BasisPrefix \o TxtA, "OiiSList2", NumPr(<<"0">>, Absent))}

Documents == UNION {[1..n -> ParagraphInputs] : n \in 0..MaxParagraphs}

InitNumbering ==
  /\ InitIdx /\ InitCommit /\ InitLock /\ fs = NoFiles
  /\ text \in Documents
  /\ norm = [current_numbering |-> CurrentNumberingDefault, last_main_point |-> 0,
             result |-> <<>>, read |-> 0]
  /\ request = None
  /\ response = None

\* the end of a w:p element (extract_hierarchical_numbering, lines 323-344)
EndOfParagraph ==
  /\ response = None
  /\ norm.read < Len(text)
  /\ LET p == text[norm.read + 1]
     IN IF p.text = <<>> \/ should_skip_text(p.text)
        THEN norm' = [norm EXCEPT !.read = @ + 1]
        ELSE \E r \in {process_paragraph(p, norm.current_numbering, norm.last_main_point)} :
               norm' = [current_numbering |-> r.current_numbering,
                        last_main_point |-> IF r.info.level = 1
                                            THEN r.current_numbering.level_1
                                            ELSE norm.last_main_point,
                        result |-> Append(norm.result, r.info),
                        read |-> norm.read + 1]
  /\ UNCHANGED <<idxVars, commitVars, lockVars, fs, text, request, response>>

\* Eof: parse hands the collected paragraphs to format_paragraphs
EndOfDocument ==
  /\ response = None
  /\ norm.read = Len(text)
  /\ response' = [paragraphs |-> format_paragraphs(norm.result)]
  /\ UNCHANGED <<idxVars, commitVars, lockVars, fs, text, norm, request>>

NextNumbering == EndOfParagraph \/ EndOfDocument

SpecNumbering == InitNumbering /\ [][NextNumbering]_vars

\* ------------------------------------------------------------------------
\* The orchestrator (auto_indexer.rs), checked under SpecTick: disk is the
\* local cache, text the files of the remote share, request the tick in
\* progress and what it has done so far
\* ------------------------------------------------------------------------
MaxTicks == 2

\* collect_metadata: the (relative path, size, mtime) of every file kept by
\* should_sync_file; the paths of the model are DOCX files of a year folder
collect_metadata(folder) ==
  {<<p, folder[p].size, folder[p].mtime>> : p \in {q \in DOMAIN folder : folder[q] # NoFile}}

\* Ok(has_changes), or Err when the share cannot be reached
check_for_changes(accessible, remote, cache) ==
  IF ~accessible THEN [ok |-> FALSE, has_changes |-> FALSE]
  ELSE [ok |-> TRUE, has_changes |-> collect_metadata(remote) # collect_metadata(cache)]

\* the copy loop of sync_to_local_cache for one path: a copy carries the
\* remote content and the time of the copy
should_copy(remote_file, local_file) ==
  \/ local_file = NoFile
  \/ remote_file.mtime > local_file.mtime
  \/ remote_file.size # local_file.size

\* the cache after the paths of done were handled; now is the time on the
\* clock of the machine that holds the cache
sync_to_local_cache(remote, cache, done, now) ==
  [p \in DOMAIN cache |->
     IF p \notin done THEN cache[p]
     ELSE IF remote[p] = NoFile THEN NoFile
     ELSE IF should_copy(remote[p], cache[p]) THEN FileMeta(remote[p].body, now)
     ELSE cache[p]]

\* lines 268-345
check_cache_vs_index(cache, files) ==
  LET present == {p \in DOMAIN cache : cache[p] # NoFile}
      existing_index == LoadExistingDoc(files)
      indexed_files == ExistingDocsMap(existing_index.documents, 1, EmptyMap)
      record(p) == existing_index.documents[indexed_files[p].idx + 1]
  IN IF present = {} THEN FALSE
     ELSE IF existing_index = None THEN TRUE
     ELSE \/ \E p \in present :
               \/ p \notin DOMAIN indexed_files
               \/ cache[p].size # record(p).file_size
               \/ cache[p].mtime > record(p).last_modified
          \/ \E p \in DOMAIN indexed_files : p \notin present

\* validate_indices run to its end
validate_indices(files) ==
  IF ValidateDecision(files).result = "repair"
  THEN save_to_file(files, ValidateDecision(files).repaired)
  ELSE files

\* an update that never tells the engine to reload
perform_incremental_update_never_reloads(files, folder, order, locked, snap) ==
  IF locked
  THEN [files |-> cleanup_temp_files(files), ok |-> FALSE, reload |-> FALSE, snap |-> snap,
        stats |-> None]
  ELSE LET r == perform_update_with_lock(cleanup_temp_files(files), folder, order)
       IN IF ~r.ok
          THEN [files |-> cleanup_temp_files(r.files), ok |-> FALSE, reload |-> FALSE,
                snap |-> snap, stats |-> None]
          ELSE [files |-> IF has_changes(r.stats) THEN validate_indices(r.files) ELSE r.files,
                ok |-> TRUE, reload |-> FALSE, snap |-> snap, stats |-> r.stats]

\* perform_incremental_update (lines 151-189); locked: another process
\* holds index_update.lock, so the update returns Err
perform_incremental_update(files, folder, order, locked, snap) ==
  IF locked
  THEN [files |-> cleanup_temp_files(files), ok |-> FALSE, reload |-> FALSE, snap |-> snap,
        stats |-> None]
  ELSE LET r == perform_update_with_lock(cleanup_temp_files(files), folder, order)
       IN IF ~r.ok
          THEN [files |-> cleanup_temp_files(r.files), ok |-> FALSE, reload |-> FALSE,
                snap |-> snap, stats |-> None]
          ELSE IF has_changes(r.stats)
               THEN [files |-> validate_indices(r.files), ok |-> TRUE, reload |-> TRUE,
                     snap |-> reload(validate_indices(r.files), snap), stats |-> r.stats]
               ELSE [files |-> r.files, ok |-> TRUE, reload |-> FALSE, snap |-> snap,
                     stats |-> r.stats]

IdleTick ==
  [pc |-> "idle", offline |-> FALSE, should_sync |-> FALSE, sync_failed |-> FALSE,
   probed |-> FALSE, cache_needs_indexing |-> FALSE, updated |-> FALSE,
   update_ok |-> FALSE, has_changes |-> FALSE, reload |-> FALSE]

InitTick ==
  /\ InitIdx /\ InitCommit /\ InitLock /\ fs = NoFiles
  /\ text = [p \in Paths |-> NoFile]
  /\ norm = NoNorm
  /\ request = IdleTick
  /\ response = None

\* somebody changes a file of the remote share
RemoteChange ==
  /\ ops < MaxOps
  /\ \E p \in Paths, m \in {NoFile} \cup {FileMeta(b, t) : b \in Bodies, t \in 1..MaxTime} :
       /\ text[p] # m
       /\ text' = [text EXCEPT ![p] = m]
  /\ ops' = ops + 1
  /\ UNCHANGED <<disk, last, cycles, fs, commitVars, lockVars, norm, request, response>>

\* interval_timer.tick() fires
TickFires ==
  /\ request.pc = "idle"
  /\ cycles < MaxTicks
  /\ cycles' = cycles + 1
  /\ request' = [IdleTick EXCEPT !.pc = "check_for_changes"]
  /\ UNCHANGED <<disk, last, ops, fs, commitVars, lockVars, text, norm, response>>

\* step 1: the change probe
CheckForChanges ==
  /\ request.pc = "check_for_changes"
  /\ \E accessible \in BOOLEAN :
       \E c \in {check_for_changes(accessible, text, disk)} :
         request' = [request EXCEPT !.offline = ~c.ok,
                                    !.should_sync = c.ok /\ c.has_changes,
                                    !.pc = IF c.ok /\ c.has_changes THEN "sync"
                                           ELSE "check_cache_vs_index"]
  /\ UNCHANGED <<idxVars, fs, commitVars, lockVars, text, norm, response>>

\* step 2: the copy, which may stop with an error part of the way
SyncToLocalCache ==
  /\ request.pc = "sync"
  /\ \E done \in SUBSET Paths, now \in 1..MaxTime :
       /\ disk' = sync_to_local_cache(text, disk, done, now)
       /\ request' = [request EXCEPT !.sync_failed = (done # Paths),
                                     !.pc = "check_cache_vs_index"]
  /\ UNCHANGED <<last, ops, cycles, fs, commitVars, lockVars, text, norm, response>>

\* step 3: the drift probe
CheckCacheVsIndex ==
  /\ request.pc = "check_cache_vs_index"
  /\ \E needs_indexing \in {check_cache_vs_index(disk, fs)} :
       request' = [request EXCEPT !.probed = TRUE,
                                  !.cache_needs_indexing = needs_indexing,
                                  !.pc = IF needs_indexing THEN "update" ELSE "idle"]
  /\ UNCHANGED <<idxVars, fs, commitVars, lockVars, text, norm, response>>

\* step 4: the update and, from inside it, the reload
PerformIncrementalUpdate ==
  /\ request.pc = "update"
  /\ \E order \in Perms({p \in Paths : disk[p] # NoFile}), locked \in BOOLEAN :
       \E u \in {perform_incremental_update(fs, disk, order, locked, snapshot)} :
         /\ fs' = u.files
         /\ snapshot' = u.snap
         /\ request' = [request EXCEPT !.updated = TRUE, !.update_ok = u.ok,
                                       !.has_changes = u.ok /\ has_changes(u.stats),
                                       !.reload = u.reload, !.pc = "idle"]
  /\ UNCHANGED <<idxVars, saver, pre, commits, recov, crashes, reader, lockVars, text, norm,
                 response>>

TickStep == CheckForChanges \/ SyncToLocalCache \/ CheckCacheVsIndex \/ PerformIncrementalUpdate

NextTick == RemoteChange \/ TickFires \/ TickStep

SpecTick == InitTick /\ [][NextTick]_vars

\* the spawned task runs the body of its loop to the end: weak fairness of
\* TickStep, written out with its enabling condition (a step of the tick is
\* possible exactly while the tick is in progress)
SpecTickFair == SpecTick /\ ([]<>(request.pc = "idle") \/ []<><<TickStep>>_vars)

\* ------------------------------------------------------------------------
\* Searches next to commits and reloads (checked under SpecReload): the
\* actions of SpecCommit and one search thread; request is the search in
\* progress, response what it returned
\* ------------------------------------------------------------------------
\* data.index.documents.is_empty(); the forward index of commit n holds n
\* documents
documents_is_empty(index) == index = NoFile \/ index.total_documents = 0

\* lines 464-488: the decision
should_reload(files, snap) ==
  /\ Exists(files, "doc") /\ Exists(files, "inv")
  /\ (snap.inverted_index = None \/ documents_is_empty(snap.index))

\* a search that reloads whenever both files exist
try_reload_indices_always(files, snap) ==
  IF Exists(files, "doc") /\ Exists(files, "inv") THEN reload(files, snap) ELSE snap

try_reload_indices_if_needed(files, snap) ==
  IF should_reload(files, snap) THEN reload(files, snap) ELSE snap

\* search is called; blank: query.trim().is_empty()
SearchCalled ==
  /\ (IF request = None THEN TRUE ELSE request.pc = "done")
  /\ \E blank \in BOOLEAN :
       request' = [pc |-> "called", blank |-> blank, stale |-> FALSE,
                   locked_pair |-> None, inverted_index |-> None, index |-> None]
  /\ UNCHANGED <<idxVars, lockVars, fs, commitVars, text, norm, response>>

\* lines 183-185: a blank query is answered at once
SearchReturnsEmpty ==
  /\ request # None /\ request.pc = "called" /\ request.blank
  /\ request' = [request EXCEPT !.pc = "done"]
  /\ response' = [results |-> "none", index |-> None, inverted_index |-> None]
  /\ UNCHANGED <<idxVars, lockVars, fs, commitVars, text, norm>>

\* line 188: try_reload_indices_if_needed; stale is a ghost: the search
\* found the installed snapshot without inverted index or without documents
SearchTriesReload ==
  /\ request # None /\ request.pc = "called" /\ ~request.blank
  /\ ~DataLocked
  /\ snapshot' = try_reload_indices_if_needed(fs, snapshot)
  /\ request' = [request EXCEPT !.pc = "ready", !.stale = should_reload(fs, snapshot)]
  /\ UNCHANGED <<idxVars, lockVars, fs, saver, pre, commits, recov, crashes, reader, text,
                 norm, response>>

\* line 200: self.data.lock(); locked_pair is a ghost
SearchLocksData ==
  /\ request # None /\ request.pc = "ready"
  /\ request' = [request EXCEPT !.pc = "locked", !.locked_pair = snapshot]
  /\ UNCHANGED <<idxVars, lockVars, fs, commitVars, text, norm, response>>

\* lines 204-211: the candidates come from data.inverted_index
SearchLooksUpCandidates ==
  /\ request # None /\ request.pc = "locked"
  /\ request' = [request EXCEPT !.pc = "candidates", !.inverted_index = snapshot.inverted_index]
  /\ UNCHANGED <<idxVars, lockVars, fs, commitVars, text, norm, response>>

\* lines 213-268: the paragraphs and the results come from data.index
SearchChecksParagraphs ==
  /\ request # None /\ request.pc = "candidates"
  /\ request' = [request EXCEPT !.pc = "checked", !.index = snapshot.index]
  /\ UNCHANGED <<idxVars, lockVars, fs, commitVars, text, norm, response>>

\* the guard is dropped when search returns
SearchReturns ==
  /\ request # None /\ request.pc = "checked"
  /\ request' = [request EXCEPT !.pc = "done"]
  /\ response' = [results |-> "some", index |-> request.index,
                  inverted_index |-> request.inverted_index]
  /\ UNCHANGED <<idxVars, lockVars, fs, commitVars, text, norm>>

SearchStep ==
  \/ SearchCalled \/ SearchReturnsEmpty \/ SearchTriesReload \/ SearchLocksData
  \/ SearchLooksUpCandidates \/ SearchChecksParagraphs \/ SearchReturns

NextReload == NextCommit \/ SearchStep

SpecReload == Init /\ [][NextReload]_vars

\* ------------------------------------------------------------------------
\* Loading an index file with its .backup copy (document_record.rs and
\* inverted_index.rs, load_from_file) and the rebuild of the inverted index
\* (atomic_index_manager.rs, rebuild_inverted_index_if_needed); checked
\* under SpecLoad
\* ------------------------------------------------------------------------
\* the index files and documents_index.json.backup
LoadFileNames == FileNames \cup {"doc_bak"}

\* a file whose bytes serde_json rejects
Unparseable == [unparseable |-> TRUE]

\* try_load_file: File::open and serde_json::from_reader
try_load_file(files, f) ==
  IF files[f] = NoFile \/ files[f] = Unparseable
  THEN [ok |-> FALSE, index |-> None]
  ELSE [ok |-> TRUE, index |-> files[f]]

\* what fs::copy can do: copy the bytes, fail before the destination is
\* opened, or fail after the destination was truncated
CopyOutcomes == {"copied", "refused", "torn"}

copy(files, from, to, outcome) ==
  CASE outcome = "copied" -> [files EXCEPT ![to] = files[from]]
    [] outcome = "torn" -> [files EXCEPT ![to] = Unparseable]
    [] OTHER -> files

Loaded(index, files) == [ok |-> TRUE, index |-> index, files |-> files]

LoadFailed(files) == [ok |-> FALSE, index |-> None, files |-> files]

\* a load that takes the backup copy as it is parsed, without validating it
load_from_file_trusts_backup(files, outcome) ==
  IF files["doc"] # NoFile /\ files["doc"] # Unparseable /\ DocValidate(files["doc"])
  THEN Loaded(files["doc"], files)
  ELSE IF files["doc_bak"] # NoFile /\ files["doc_bak"] # Unparseable
       THEN Loaded(files["doc_bak"], copy(files, "doc_bak", "doc", outcome))
       ELSE LoadFailed(files)

\* DocumentIndex::load_from_file; outcome is what the restoring copy does
load_from_file(files, outcome) ==
  IF try_load_file(files, "doc").ok /\ DocValidate(try_load_file(files, "doc").index)
  THEN Loaded(files["doc"], files)
  ELSE IF /\ Exists(files, "doc_bak")
          /\ try_load_file(files, "doc_bak").ok
          /\ DocValidate(try_load_file(files, "doc_bak").index)
       THEN Loaded(files["doc_bak"], copy(files, "doc_bak", "doc", outcome))
       ELSE LoadFailed(files)

\* InvertedIndex::load_from_file
InvLoadFromFile(files, outcome) ==
  IF try_load_file(files, "inv").ok /\ InvValidate(try_load_file(files, "inv").index)
  THEN Loaded(files["inv"], files)
  ELSE IF /\ Exists(files, "inv_bak")
          /\ try_load_file(files, "inv_bak").ok
          /\ InvValidate(try_load_file(files, "inv_bak").index)
       THEN Loaded(files["inv_bak"], copy(files, "inv_bak", "inv", outcome))
       ELSE LoadFailed(files)

\* the difference of the document counts above which the index is rebuilt
RebuildThreshold == 10

\* (a as i32 - b as i32).abs()
docs_count_diff(a, b) == IF a >= b THEN a - b ELSE b - a

\* a test that already rebuilds at a difference of RebuildThreshold
should_rebuild_at_threshold(doc_index, inv_index_result) ==
  IF ~inv_index_result.ok THEN TRUE
  ELSE IF docs_count_diff(doc_index.total_documents,
                          inv_index_result.index.total_documents) >= RebuildThreshold
       THEN TRUE
       ELSE /\ DOMAIN inv_index_result.index.word_to_docs = {}
            /\ doc_index.total_documents > 0

\* lines 430-447
should_rebuild(doc_index, inv_index_result) ==
  IF ~inv_index_result.ok THEN TRUE
  ELSE IF docs_count_diff(doc_index.total_documents,
                          inv_index_result.index.total_documents) > RebuildThreshold
       THEN TRUE
       ELSE /\ DOMAIN inv_index_result.index.word_to_docs = {}
            /\ doc_index.total_documents > 0

\* the rebuild and its commit (lines 449-456), no file-system call failing
RebuildAndSave(files, doc_index) ==
  LET saved == save_indices_atomically(files, doc_index, rebuild_from_scratch(doc_index))
  IN [result |-> IF saved.pc = "ok" THEN "true" ELSE "err", files |-> saved.files]

\* rebuild_inverted_index_if_needed, given both loads
RebuildIfNeeded(doc_loaded, inv_loaded) ==
  IF ~doc_loaded.ok THEN [result |-> "err", files |-> doc_loaded.files]
  ELSE IF should_rebuild(doc_loaded.index, inv_loaded)
       THEN RebuildAndSave(inv_loaded.files, doc_loaded.index)
       ELSE [result |-> "false", files |-> inv_loaded.files]

\* the documents of the sample forward indexes
LoadContents == <<<<TxtKotaPes>>, <<TxtPes, TxtRybaKota>>, <<TxtKotaPes, TxtPes>>, <<TxtPes>>>>

RECURSIVE ForwardOf(_)
ForwardOf(n) ==
  IF n = 0 THEN DocumentIndexNew
  ELSE LET front == ForwardOf(n - 1)
           document == DocumentRecord(PathNames[n], [size |-> n, mtime |-> 1], LoadContents[n])
       IN [documents |-> Append(front.documents, document),
           total_documents |-> n,
           total_words |-> front.total_words + document.word_count]

\* forward files that parse and validate
ValidForward == {ForwardOf(n) : n \in 0..MaxDocs}

\* forward files that parse and fail one test of validate_index each
InvalidForward ==
  {[ForwardOf(0) EXCEPT !.total_documents = 1],
   [ForwardOf(1) EXCEPT !.total_documents = 2],
   [ForwardOf(1) EXCEPT !.documents[1].file_path = ""],
   [ForwardOf(1) EXCEPT !.documents[1].paragraph_count = 2]}

ForwardFiles == {NoFile, Unparseable} \cup ValidForward \cup InvalidForward

ForwardBackups == {NoFile, Unparseable, ForwardOf(1), [ForwardOf(1) EXCEPT !.total_documents = 2]}

\* document counts an inverted index file can carry
InvertedTotals ==
  (0..MaxDocs) \cup ((RebuildThreshold - 1)..(RebuildThreshold + MaxDocs + 1)) \cup {101}

\* inverted files that parse and hold what validate_index only warns
\* about: a stem of one letter, an empty posting list, an empty position list
WarnedInverted ==
  {[word_to_docs |-> MapPut(EmptyMap, <<"k">>, <<DocPosition(0, <<0>>)>>),
    total_documents |-> 1],
   [word_to_docs |-> MapPut(EmptyMap, <<"k", "o", "t">>, <<>>), total_documents |-> 1],
   [word_to_docs |-> MapPut(EmptyMap, <<"k", "o", "t">>, <<DocPosition(0, <<>>)>>),
    total_documents |-> 1]}

InvertedFiles ==
  {NoFile, Unparseable}
  \cup {[rebuild_from_scratch(ForwardOf(n)) EXCEPT !.total_documents = t] :
          n \in 0..MaxDocs, t \in InvertedTotals}
  \cup WarnedInverted

InvertedBackups == {NoFile, rebuild_from_scratch(ForwardOf(1)),
                    [InvertedIndexNew EXCEPT !.total_documents = 101]}

NoCall == [op |-> "none"]

InitLoad ==
  /\ disk = [p \in Paths |-> NoFile]
  /\ last = NoCall
  /\ ops = 0
  /\ cycles = 0
  /\ InitCommit /\ InitLock /\ InitQuery
  /\ \E d \in ForwardFiles, db \in ForwardBackups, i \in InvertedFiles, ib \in InvertedBackups :
       fs = [f \in LoadFileNames |->
               CASE f = "doc" -> d [] f = "doc_bak" -> db
                 [] f = "inv" -> i [] f = "inv_bak" -> ib [] OTHER -> NoFile]

\* DocumentIndex::load_from_file(documents_index_path)
LoadFromFile ==
  /\ ops < MaxOps
  /\ \E outcome \in CopyOutcomes :
       \E r \in {load_from_file(fs, outcome)} :
         /\ fs' = r.files
         /\ last' = [op |-> "load", before |-> fs, ok |-> r.ok, index |-> r.index,
                     copy |-> outcome]
  /\ ops' = ops + 1
  /\ UNCHANGED <<disk, cycles, commitVars, lockVars, queryVars>>

\* rebuild_inverted_index_if_needed
RebuildInvertedIndexIfNeeded ==
  /\ ops < MaxOps
  /\ \E o1 \in CopyOutcomes, o2 \in CopyOutcomes :
       \E d \in {load_from_file(fs, o1)} :
         \E i \in {IF d.ok THEN InvLoadFromFile(d.files, o2) ELSE LoadFailed(d.files)} :
           \E r \in {RebuildIfNeeded(d, i)} :
             /\ fs' = r.files
             /\ last' = [op |-> "rebuild", before |-> fs, result |-> r.result,
                         doc |-> d, inv |-> i]
  /\ ops' = ops + 1
  /\ UNCHANGED <<disk, cycles, commitVars, lockVars, queryVars>>

NextLoad == LoadFromFile \/ RebuildInvertedIndexIfNeeded

SpecLoad == InitLoad /\ [][NextLoad]_vars

\* ------------------------------------------------------------------------
\* remove_duplicate_entries on its own (checked under SpecDedupe): the pass
\* is applied, twice in a row, to inverted indexes whose posting lists hold
\* at most MaxEntries DocPositions in any order, with doc ids that repeat
\* and position lists that are empty, unsorted or repeat a position
\* ------------------------------------------------------------------------
MaxEntries == 3

DedupeStem == <<"k", "o", "t">>
DedupeOtherStem == <<"p", "e", "s">>

PositionLists == {<<>>, <<0>>, <<1>>, <<0, 0>>, <<0, 1>>, <<1, 0>>}

DocPositionInputs == {DocPosition(d, ps) : d \in 0..1, ps \in PositionLists}

RECURSIVE PostingLists(_)
PostingLists(n) ==
  IF n = 0 THEN {<<>>}
  ELSE PostingLists(n - 1)
       \cup {Append(l, dp) : l \in {x \in PostingLists(n - 1) : Len(x) = n - 1},
                             dp \in DocPositionInputs}

DedupeInputs ==
  {[word_to_docs |-> MapPut(EmptyMap, DedupeStem, l), total_documents |-> 2] :
     l \in PostingLists(MaxEntries)}
  \cup {[word_to_docs |-> MapPut(MapPut(EmptyMap, DedupeStem, l), DedupeOtherStem,
                                 <<DocPosition(1, <<1>>), DocPosition(1, <<0>>)>>),
          total_documents |-> 2] : l \in PostingLists(MaxEntries - 1)}

\* the number remove_duplicate_entries returns: by how much the posting
\* lists got shorter
RECURSIVE SumOver(_, _)
SumOver(f, keys) ==
  IF keys = {} THEN 0
  ELSE LET k == CHOOSE x \in keys : TRUE IN f[k] + SumOver(f, keys \ {k})

duplicates_removed(inv) ==
  SumOver([w \in DOMAIN inv.word_to_docs |->
             Len(inv.word_to_docs[w]) - Len(remove_duplicate_entries(inv).word_to_docs[w])],
          DOMAIN inv.word_to_docs)

InitDedupe ==
  /\ InitIdx /\ InitLock /\ fs = NoFiles
  /\ saver = IdleSaver
  /\ pre = LivePair(NoFiles)
  /\ commits = 0
  /\ recov = None
  /\ crashes = 0
  /\ reader = [pc |-> "idle", doc |-> NoFile]
  /\ text = <<>>
  /\ norm = NoNorm
  /\ request = None
  /\ response = None
  /\ \E inv \in DedupeInputs : snapshot = [index |-> NoFile, inverted_index |-> inv]

\* one call of remove_duplicate_entries; request keeps the index it was
\* called on and the number it returned
RemoveDuplicateEntries ==
  /\ ops < 2
  /\ ops' = ops + 1
  /\ snapshot' = [snapshot EXCEPT !.inverted_index = remove_duplicate_entries(@)]
  /\ request' = [before |-> snapshot.inverted_index,
                 returned |-> duplicates_removed(snapshot.inverted_index)]
  /\ UNCHANGED <<disk, last, cycles, fs, saver, pre, commits, recov, crashes, reader,
                 lockVars, text, norm, response>>

SpecDedupe == InitDedupe /\ [][RemoveDuplicateEntries]_vars

\* ------------------------------------------------------------------------
\* Properties of the index pair (checked under Spec)
\* ------------------------------------------------------------------------
Committed == last.ran /\ last.committed

\* I4 for a pair of indices
I4(forward, inverted) ==
  \A s \in DOMAIN inverted.word_to_docs :
    \A i \in 1..Len(inverted.word_to_docs[s]) :
      LET dp == inverted.word_to_docs[s][i]
      IN /\ HasDoc(forward, dp.doc_index)
         /\ \A p \in Range(dp.paragraph_positions) :
              /\ p >= 0 /\ p < Len(DocAt(forward, dp.doc_index).content)
              /\ Contains(extract_words(DocAt(forward, dp.doc_index).content[p + 1]), s)

\* C1: after every successful update cycle the committed pair satisfies I4:
\* every DocPosition (d, P) under a stem s has d a valid document id and
\* every p in P a paragraph of document d whose extracted stems include s.
C1_CommittedPairSatisfiesI4 == Committed => I4(fs.doc, fs.inv)

\* C2: after a cycle that removed records and committed, the forward index has
\* no record with a removed path and the inverted index has no DocPosition
\* referring to the former document id of a removed record.
C2_DeletedRecordLeavesNoPosting ==
  Committed =>
    \A k \in 1..Len(last.removed) :
      /\ \A i \in 1..Len(fs.doc.documents) : fs.doc.documents[i].file_path # last.removed[k].path
      /\ \A s \in DOMAIN fs.inv.word_to_docs :
           \A i \in 1..Len(fs.inv.word_to_docs[s]) :
             fs.inv.word_to_docs[s][i].doc_index # last.removed[k].id

\* C3: across a reconcile every surviving record keeps its position, and new
\* records come after all the existing ones.
C3_DocIdsStable ==
  last.ran =>
    \A i \in 1..Len(last.origin) :
      /\ last.origin[i] # -1 => last.origin[i] = i - 1
      /\ last.origin[i] = -1 => \A j \in i..Len(last.origin) : last.origin[j] = -1

\* C10: after every update cycle that commits, I1 and I3 hold:
\* forward.total_documents = |forward.documents| and
\* inverted.total_documents = forward.total_documents.
C10_TotalsAgree ==
  Committed =>
    /\ fs.doc.total_documents = Len(fs.doc.documents)
    /\ fs.inv.total_documents = fs.doc.total_documents

\* a commit of a cycle that only removed records and left some in place
C10_Witness ==
  /\ Committed
  /\ last.stats.deleted > 0 /\ last.stats.processed = 0 /\ last.stats.renamed = 0
  /\ Len(fs.doc.documents) > 0
  /\ fs.inv.total_documents = Len(fs.doc.documents)

\* ------------------------------------------------------------------------
\* Properties of the commit protocol (checked under SpecCommit)
\* ------------------------------------------------------------------------
\* C4: when the process is killed after the forward file was renamed into
\* place and before the inverted file was, the files the restarted program
\* loads after its cleanup are both at their new state or both at their prior
\* state.
C4_RecoveryNeverMixed ==
  (recov # None /\ recov.at \in {"remove_inv", "rename_inv"}) =>
    (LivePair(fs) = recov.pre \/ LivePair(fs) = recov.new)

\* C5: whenever save_indices_atomically returns an error, both live files hold
\* exactly their pre-commit state (same content, or absent if they were absent).
C5_ErrorLeavesPreCommitState == saver.pc = "err" => LivePair(fs) = pre

\* C6: a reload that reads the forward file and then the inverted file without
\* the update lock installs a pair written by one commit: never a new/old
\* split and never a forward index without its inverted index.
C6_ReaderSeesOneCommit ==
  snapshot # NewEngine =>
    /\ snapshot.inverted_index # None
    /\ snapshot.index.commit = snapshot.inverted_index.commit

\* ------------------------------------------------------------------------
\* Properties of the update lock (checked under SpecLock)
\* ------------------------------------------------------------------------
InBody(p) == proc[p].pc \in {"locked", "mid_commit"}

Contended(p) == proc[p].pc = "opened" /\ ~LockFree(proc, p)

\* C7: at most one caller executes the update body at any time, also when
\* the holder removes the lock file another caller has already opened.
C7_MutualExclusion ==
  \A p \in Procs : \A q \in Procs : (p # q /\ InBody(p)) => ~InBody(q)

\* C8: a caller that finds the lock held returns an error with its next
\* step, never enters the update body in that call, and leaves every index
\* file, the lock file and every other caller (the holder and its lock
\* included) as they were.
C8_ContendedCallerFailsFast ==
  [][\A p \in Procs :
       /\ (Contended(p) /\ proc'[p] # proc[p]) =>
            /\ proc'[p].pc = "failed" /\ proc'[p].error = "contention"
            /\ ~proc'[p].held
            /\ fs' = fs
            /\ lockPath' = lockPath
            /\ \A q \in Procs \ {p} : proc'[q] = proc[q]
       /\ (proc[p].pc = "failed" /\ proc[p].error = "contention" /\ proc'[p] # proc[p]) =>
            (proc'[p].pc = "idle" /\ LivePair(fs') = LivePair(fs))]_vars

\* a caller has just failed on contention while the holder is in the middle
\* of its commit
C8_Witness ==
  \E p \in Procs : \E q \in Procs \ {p} :
    /\ proc[p].pc = "failed" /\ proc[p].error = "contention"
    /\ proc[q].pc = "mid_commit" /\ proc[q].held /\ lockPath = proc[q].fd

\* C9: whoever is about to write a live index file (the second half of the
\* commit, the repair of validate_indices) holds the lock.
C9_WritersHoldLock ==
  \A p \in Procs : proc[p].pc \in {"mid_commit", "repair"} => proc[p].held

\* ------------------------------------------------------------------------
\* Properties of the reconciler (checked under Spec)
\* ------------------------------------------------------------------------
PathsDistinct(index) ==
  \A i \in 1..Len(index.documents) : \A j \in 1..Len(index.documents) :
    i # j => index.documents[i].file_path # index.documents[j].file_path

\* C11: the forward index a reconcile returns has pairwise distinct file
\* paths whenever the index it started from had (I2), whatever mix of new,
\* updated, look-alike and deleted files the folder holds.
C11_PathsStayDistinct ==
  (last.ran /\ (Exists(last.prev, "doc") => PathsDistinct(last.prev.doc)))
    => PathsDistinct(last.index)

\* a reconcile that moved a record to a look-alike path and stored another
\* file, with two records sharing one (size, mtime)
C11_Witness ==
  /\ last.ran /\ last.stats.renamed > 0 /\ last.stats.processed > 0
  /\ \E i \in 1..Len(last.index.documents) : \E j \in 1..Len(last.index.documents) :
        /\ i # j
        /\ last.index.documents[i].file_size = last.index.documents[j].file_size
        /\ last.index.documents[i].last_modified = last.index.documents[j].last_modified

\* record i of the index the cycle started from names a file that is gone,
\* path b is a file without a record that has the size and mtime of record
\* i, and every other file of the folder is a known, unchanged one
MovedTo(i, b) ==
  /\ Exists(last.prev, "doc")
  /\ i \in 1..Len(last.prev.doc.documents)
  /\ last.folder[last.prev.doc.documents[i].file_path] = NoFile
  /\ last.folder[b] # NoFile
  /\ \A k \in 1..Len(last.prev.doc.documents) : last.prev.doc.documents[k].file_path # b
  /\ last.folder[b].size = last.prev.doc.documents[i].file_size
  /\ last.folder[b].mtime = last.prev.doc.documents[i].last_modified
  /\ \A q \in Paths \ {b} : last.folder[q] # NoFile =>
        \E k \in 1..Len(last.prev.doc.documents) :
          /\ last.prev.doc.documents[k].file_path = q
          /\ last.folder[q].mtime <= last.prev.doc.documents[k].last_modified
  /\ \A k \in 1..Len(last.prev.doc.documents) :
        k # i => last.folder[last.prev.doc.documents[k].file_path] # NoFile

\* C12: when an indexed file is gone and a file with the size and mtime of
\* its record appears under another path, the reconcile keeps one record for
\* it at the same id with the new path, parses nothing, reports one rename
\* and no new or deleted file, and the postings stay as they were.
C12_RenameDetected ==
  \A i \in 1..MaxPaths : \A b \in Paths :
    (last.ran /\ MovedTo(i, b)) =>
      /\ Len(last.index.documents) = Len(last.prev.doc.documents)
      /\ last.index.documents[i].file_path = b
      /\ last.stats.renamed = 1 /\ last.stats.processed = 0 /\ last.stats.deleted = 0
      /\ last.committed /\ fs.inv = last.prev.inv

\* the file at path p was seen unchanged by the reconcile
SeenUnchanged(p) ==
  /\ Exists(last.prev, "doc")
  /\ \E k \in 1..Len(last.prev.doc.documents) :
        /\ last.prev.doc.documents[k].file_path = p
        /\ last.folder[p].mtime <= last.prev.doc.documents[k].last_modified

\* C13: after a reconcile every file of the folder that was unchanged or
\* parses successfully has a record with its path in the returned index: a
\* file still on disk never loses its record to a look-alike file.
C13_FileOnDiskKeepsRecord ==
  last.ran =>
    \A p \in Paths :
      (last.folder[p] # NoFile /\ (SeenUnchanged(p) \/ ParseOk(last.folder[p].body))) =>
        \E k \in 1..Len(last.index.documents) : last.index.documents[k].file_path = p

\* ------------------------------------------------------------------------
\* Properties of the normalisation (checked under SpecText)
\* ------------------------------------------------------------------------
\* C18: for every text the lookup keys of the query pipeline equal the stems
\* the indexer extracts from the same text.
C18_QueryKeysEqualIndexStems ==
  (norm.indexed # None /\ norm.queried # None) => norm.queried.words = norm.indexed.words

\* C19: the stemmer of the indexer, the stemmer of the search engine and
\* stemmer::stem_word return the same stem for every token.
C19_OneStemFunction ==
  norm.stems # None =>
    (norm.stems.index = norm.stems.search /\ norm.stems.search = norm.stems.stemmer)

\* C20: stemming is idempotent: stemming a stem returns it unchanged, for
\* each of the three stemmers.
C20_StemIdempotent ==
  norm.stems # None =>
    /\ norm.stems.stemmer2 = norm.stems.stemmer
    /\ norm.stems.index2 = norm.stems.index
    /\ norm.stems.search2 = norm.stems.search

\* a token that loses trailing vowels and then hits the Fedir rule
C20_Witness ==
  /\ norm.stems # None
  /\ text = Fed \o <<"o", "r", "a">>
  /\ norm.stems.stemmer = Fed
  /\ norm.stems.index = Fed \o <<"o", "r">>

\* ------------------------------------------------------------------------
\* Properties of search (checked under SpecSearch)
\* ------------------------------------------------------------------------
\* the paragraph of a match position and what search compares the stems with
ParagraphAt(d, p) == get_paragraphs(DocAt(snapshot.index, d))[p + 1]

Normalized(paragraph) == StripApostrophes(to_lowercase(paragraph))

\* the walk of the proximity rule with the gap counted in characters
WithinCharacters(paragraph, query_words) ==
  ProximityWalk(Normalized(paragraph), query_words, 1, 0, FALSE)

\* paragraph p of document d is among the matches of the response
IsMatch(d, p) ==
  \E k \in 1..Len(response.results) :
    /\ response.results[k].doc = d
    /\ \E m \in 1..Len(response.results[k].matches) :
         response.results[k].matches[m].position = p

\* C14: search_fast returns only documents inside the window of the mode,
\* Quick = [0, min(170, N)), Remaining = [min(170, N), N), Full = [0, N), so
\* that Quick and Remaining are disjoint for every N
C14_ModeWindows ==
  (response # None /\ snapshot.inverted_index # None) =>
    LET N == Len(snapshot.index.documents)
        cut == IF N > QuickWindow THEN QuickWindow ELSE N
    IN \A d \in DOMAIN response.candidates :
         /\ request.mode = "Quick" => (0 <= d /\ d < cut)
         /\ request.mode = "Remaining" => (cut <= d /\ d < N)
         /\ request.mode = "Full" => (0 <= d /\ d < N)

\* C15: every returned match is a paragraph of its document in which every
\* stem of the query occurs, within the proximity rule when the query has 2
\* or 3 stems, and no document is returned without a match
C15_SearchSound ==
  response # None =>
    \A k \in 1..Len(response.results) :
      /\ HasDoc(snapshot.index, response.results[k].doc)
      /\ response.results[k].matches # <<>>
      /\ \A m \in 1..Len(response.results[k].matches) :
           \E p \in {response.results[k].matches[m].position} :
             /\ p < Len(get_paragraphs(DocAt(snapshot.index, response.results[k].doc)))
             /\ response.results[k].matches[m].context = ParagraphAt(response.results[k].doc, p)
             /\ \A w \in Range(QueryWords(request.query)) :
                  find(Normalized(ParagraphAt(response.results[k].doc, p)), w, 0) # -1
             /\ Len(QueryWords(request.query)) \in 2..3 =>
                  WithinCharacters(ParagraphAt(response.results[k].doc, p),
                                   QueryWords(request.query))

\* a two-stem query answered through the inverted index returned a match and
\* dropped another candidate paragraph that holds both stems
C15_Witness ==
  /\ response # None
  /\ snapshot.inverted_index # None
  /\ Len(QueryWords(request.query)) = 2
  /\ response.results # <<>>
  /\ \E d \in DOMAIN response.candidates : \E p \in Range(response.candidates[d]) :
       /\ ~IsMatch(d, p)
       /\ p < Len(get_paragraphs(DocAt(snapshot.index, d)))
       /\ \A w \in Range(QueryWords(request.query)) :
            find(Normalized(ParagraphAt(d, p)), w, 0) # -1

\* C16: with the inverted index built from the forward index, a one-word
\* query in Full mode outside the fragments view returns exactly the
\* documents with a paragraph whose extracted stems include the query stem,
\* and as positions exactly those paragraphs
C16_SingleStemComplete ==
  (/\ response # None
   /\ request.mode = "Full"
   /\ request.view_mode # "fragments"
   /\ Len(QueryWords(request.query)) = 1
   /\ snapshot.inverted_index = rebuild_from_scratch(snapshot.index)) =>
    \A d \in 0..(Len(snapshot.index.documents) - 1) :
      \A p \in 0..(Len(get_paragraphs(DocAt(snapshot.index, d))) - 1) :
        IsMatch(d, p) <=> Contains(WordsOf[ParagraphAt(d, p)], QueryWords(request.query)[1])

\* C17: a candidate paragraph is kept iff it holds every stem and, for a
\* query of 2 or 3 stems, the stems are found in query order with at most 15
\* characters between consecutive finds; no such filter for 1 or 4 stems
C17_ProximityRule ==
  (response # None /\ QueryWords(request.query) # <<>>) =>
    \A d \in DOMAIN response.candidates : \A p \in Range(response.candidates[d]) :
      (/\ HasDoc(snapshot.index, d)
       /\ p < Len(get_paragraphs(DocAt(snapshot.index, d)))
       /\ ~(/\ request.view_mode = "fragments"
            /\ starts_with(trim(to_lowercase(ParagraphAt(d, p))), Pidstava))) =>
        (IsMatch(d, p) <=>
           /\ \A w \in Range(QueryWords(request.query)) :
                find(Normalized(ParagraphAt(d, p)), w, 0) # -1
           /\ Len(QueryWords(request.query)) \in 2..3 =>
                WithinCharacters(ParagraphAt(d, p), QueryWords(request.query)))

\* ------------------------------------------------------------------------
\* Properties of the order of results (checked under SpecOrder)
\* ------------------------------------------------------------------------
DateOf(k) == extract_date_from_filename(response.results[k].file_path)

\* date x is older than date y, both <<year, month, day>>
Older(x, y) ==
  \/ x[1] < y[1]
  \/ (x[1] = y[1] /\ x[2] < y[2])
  \/ (x[1] = y[1] /\ x[2] = y[2] /\ x[3] < y[3])

PostingsOf(inv) ==
  UNION {UNION {{<<w, inv.word_to_docs[w][i].doc_index, p>> :
                   p \in Range(inv.word_to_docs[w][i].paragraph_positions)} :
                i \in 1..Len(inv.word_to_docs[w])} :
         w \in DOMAIN inv.word_to_docs}

\* the inverted index has the postings of a rebuild from the surviving documents
AgreesWithRebuild(data) ==
  PostingsOf(data.inverted_index) = PostingsOf(rebuild_from_scratch(data.index))

\* C22 as stated: after any sequence of add and remove operations the
\* postings are those of rebuild_from_scratch of the surviving documents
C22_AnySequenceAgrees == AgreesWithRebuild(snapshot)

\* C22 amended: a remove, and an add to an id that has no surviving
\* document, keep the postings equal to those of rebuild_from_scratch of
\* the surviving documents
C22_AddToFreeIdAgrees ==
  [][(AgreesWithRebuild(snapshot) /\ ~(request'.op = "add" /\ request'.live))
       => AgreesWithRebuild(snapshot')]_vars

\* a document was added, removed, and another document added at the same id
C22_Witness ==
  /\ ops = MaxOps
  /\ request # None /\ request.op = "add" /\ ~request.live
  /\ \E d \in 0..(MaxDocs - 1) : \A e \in 0..(MaxDocs - 1) :
       (DocAt(snapshot.index, e).content # <<>>) <=> (e = d)
  /\ AgreesWithRebuild(snapshot)
\* ------------------------------------------------------------------------
\* Claims on the update cycle's frame (checked under Spec)
\* ------------------------------------------------------------------------
\* the last cycle committed a change set that holds renames only
OnlyRenames ==
  /\ Committed
  /\ last.new_or_updated_indices = <<>>
  /\ last.deleted_file_paths = <<>>
  /\ last.renamed_indices # <<>>

SameButPath(old, new) == [new EXCEPT !.file_path = old.file_path] = old

\* C23: after a cycle whose change set holds only renames, the committed
\* inverted index has exactly the postings of the previously committed one,
\* its total_documents is the forward index's, and the committed forward
\* index differs from the previous one only in the file_path of the
\* renamed records
C23_OnlyRenamesFrame ==
  OnlyRenames =>
    /\ last.prev.inv # NoFile
    /\ PostingsOf(fs.inv) = PostingsOf(last.prev.inv)
    /\ fs.inv.total_documents = fs.doc.total_documents
    /\ Len(fs.doc.documents) = Len(last.prev.doc.documents)
    /\ \A i \in 1..Len(fs.doc.documents) :
         IF (i - 1) \in Range(last.renamed_indices)
         THEN SameButPath(last.prev.doc.documents[i], fs.doc.documents[i])
         ELSE fs.doc.documents[i] = last.prev.doc.documents[i]
    /\ fs.doc.total_documents = last.prev.doc.total_documents
    /\ fs.doc.total_words = last.prev.doc.total_words

\* the folder holds exactly the files the loaded forward index records,
\* none of them newer than its record
NothingToDo(folder, files) ==
  LET docs == IF LoadExistingDoc(files) = None THEN <<>> ELSE LoadExistingDoc(files).documents
  IN /\ {p \in DOMAIN folder : folder[p] # NoFile} = {docs[i].file_path : i \in 1..Len(docs)}
     /\ \A i \in 1..Len(docs) : folder[docs[i].file_path].mtime <= docs[i].last_modified

Siblings == FileNames \ {"doc", "inv"}

\* C24: an update cycle whose scan finds no new, updated, renamed or
\* deleted file runs no commit, leaves every index file as it was with no
\* temp or backup sibling, and returns success with no counter other than
\* skipped above zero
C24_NoChangeIsNoOp ==
  [][(cycles' = cycles + 1 /\ (NothingToDo(disk, fs) \/ ~has_changes(last'.stats)))
       => /\ ~last'.committed
          /\ last'.ok
          /\ fs' = fs
          /\ \A f \in Siblings : ~Exists(fs', f)
          /\ last'.stats.processed = 0
          /\ last'.stats.deleted = 0
          /\ last'.stats.renamed = 0]_vars

\* a second cycle over an unchanged folder of two indexed files
C24_Witness ==
  /\ cycles = 2
  /\ last.ran /\ ~last.committed
  /\ last.stats.skipped = 2
  /\ last.prev = LivePair(fs)
  /\ NothingToDo(disk, fs)

\* ------------------------------------------------------------------------
\* Claims on the numbering extractor (checked under SpecNumbering)
\* ------------------------------------------------------------------------
Counter(c, j) ==
  CASE j = 1 -> c.level_1 [] j = 2 -> c.level_2 [] j = 3 -> c.level_3 [] j = 4 -> c.level_4

\* "c1.c2. ... ck. " for the counters 1..k
RECURSIVE CountersUpTo(_, _)
CountersUpTo(c, k) ==
  IF k = 0 THEN <<>> ELSE CountersUpTo(c, k - 1) \o Decimal(Counter(c, k)) \o <<".">>

LevelOnes(result) == SeqFilterIn(result, {r \in Range(result) : r.level = 1})

\* the step emitted a paragraph of level k
Emitted(k) ==
  /\ Len(norm'.result) = Len(norm.result) + 1
  /\ norm'.result[Len(norm'.result)].level = k

ListStyles == <<"OiiSList1", "OiiSList2", "OiiSList2", "OiiSList1">>

\* the document of four paragraphs A with the styles OiiSList1, OiiSList2,
\* OiiSList2, OiiSList1
ExampleDocument == [i \in 1..4 |-> Paragraph(TxtA, ListStyles[i], None)]

ExamplePrefixes ==
  <<<<"1", ".", Space>>, <<"1", ".", "1", ".", Space>>, <<"1", ".", "2", ".", Space>>,
    <<"2", ".", Space>>>>

\* C25: a paragraph emitted at level 1 sets L1 to one more than the L1 of
\* the level-1 paragraph emitted before it (0 when there is none) and L2,
\* L3, L4 to 0; one emitted at level k in 2..4 adds one to counter k and
\* sets the deeper counters to 0; its prefix lists the counters 1..k; the
\* level-1 prefixes are 1., 2., 3., ... in document order; and the styles
\* OiiSList1, OiiSList2, OiiSList2, OiiSList1 give 1., 1.1., 1.2., 2.
C25_NumberingStateMachine ==
  [][
      /\ \A k \in 1..4 :
          Emitted(k) =>
            /\ norm'.result[Len(norm'.result)].calculated_number
                 = CountersUpTo(norm'.current_numbering, k) \o <<Space>>
            /\ Counter(norm'.current_numbering, k)
                 = (IF k = 1 THEN Len(LevelOnes(norm.result))
                    ELSE Counter(norm.current_numbering, k)) + 1
            /\ \A j \in (k + 1)..4 : Counter(norm'.current_numbering, j) = 0
      /\ \A i \in 1..Len(LevelOnes(norm'.result)) :
           LevelOnes(norm'.result)[i].calculated_number = Decimal(i) \o <<".", Space>>
      /\ ((text = ExampleDocument /\ norm'.read = 4)
           => [i \in 1..4 |-> norm'.result[i].calculated_number] = ExamplePrefixes)
      /\ ((text = ExampleDocument /\ response' # None)
           => response'.paragraphs = [i \in 1..4 |-> ExamplePrefixes[i] \o TxtA])
     ]_vars

\* a document in which a level-3 paragraph follows a level-2 and a level-1
\* one, and a second level-1 paragraph has reset the deeper counters
C25_Witness ==
  /\ norm.read = 4
  /\ Len(norm.result) = 4
  /\ [i \in 1..4 |-> norm.result[i].level] = <<1, 2, 3, 1>>
  /\ norm.current_numbering = [level_1 |-> 2, level_2 |-> 0, level_3 |-> 0, level_4 |-> 0]
  /\ response # None

\* ------------------------------------------------------------------------
\* Claims on the orchestrator (checked under SpecTickFair)
\* ------------------------------------------------------------------------
\* the step ends a tick
TickEnds == request.pc # "idle" /\ request'.pc = "idle"

\* what every tick does before it ends: the drift probe has run, and the
\* update has run exactly when the probe asked for it
ProbeAndUpdate ==
  TickEnds => /\ request'.probed
              /\ request'.updated <=> request'.cache_needs_indexing

\* a tick that has begun ends, with the drift probe run
TickCompletes == (request.pc = "check_for_changes") ~> (request.pc = "idle" /\ request.probed)

\* C26 as stated: every tick runs the drift probe, whatever the change probe
\* and the sync did; it runs the update iff the drift probe asked for it;
\* and the search engine is told to reload whenever the update succeeds
C26_ReloadOnEverySuccess ==
  /\ [][ProbeAndUpdate /\ (TickEnds /\ request'.updated /\ request'.update_ok => request'.reload)]_vars
  /\ TickCompletes

\* C26 amended: every tick runs the drift probe, whatever the change probe
\* and the sync did; it runs the update iff the drift probe asked for it;
\* and the search engine is told to reload exactly when the update succeeds
\* and reports a processed, deleted or renamed file
C26_ReloadOnSuccessWithChanges ==
  /\ [][ProbeAndUpdate
        /\ (TickEnds => (request'.reload <=> (request'.updated /\ request'.update_ok
                                               /\ request'.has_changes)))]_vars
  /\ TickCompletes

\* a tick whose sync failed part of the way has probed, updated and reloaded
C26_Witness ==
  /\ request.pc = "idle"
  /\ request.sync_failed
  /\ request.probed /\ request.updated /\ request.update_ok /\ request.reload
  /\ snapshot = [index |-> fs.doc, inverted_index |-> fs.inv]

\* ------------------------------------------------------------------------
\* Claims on searches next to commits and reloads (checked under SpecReload)
\* ------------------------------------------------------------------------
\* the step is the install of SearchEngine::reload called by the orchestrator
ReloadInstalled == reader.pc = "have_doc" /\ reader'.pc = "idle"

\* the step returns the answer of a search
Answered == response' # response /\ response'.results = "some"

AnswerPair(r) == [index |-> r.index, inverted_index |-> r.inverted_index]

\* the step is the search's own reload of a snapshot it found without
\* inverted index or without documents
SearchReloaded ==
  /\ request # None
  /\ request.pc = "called"
  /\ should_reload(fs, snapshot)
  /\ snapshot' = reload(fs, snapshot)

\* C27 as stated: no commit and no search changes the installed snapshot,
\* only a reload does, and a search is answered from the installed snapshot;
\* so a search sees a commit only after a reload
C27_OnlyReloadChangesSnapshot ==
  [][/\ (snapshot' # snapshot) => ReloadInstalled
     /\ Answered => AnswerPair(response') = snapshot]_vars

\* C27 amended: the installed snapshot changes only by a reload or by the
\* reload a search runs by itself when it finds both index files on disk and
\* the installed snapshot without inverted index or without documents; no
\* commit changes it, and a search is answered from the installed snapshot
C27_ReloadOrEmptySnapshot ==
  [][/\ (snapshot' # snapshot) => (ReloadInstalled \/ SearchReloaded)
     /\ Answered => AnswerPair(response') = snapshot]_vars

\* a search begun after commit 2 succeeded, with no reload since commit 1,
\* was answered from the pair of commit 1
C27_Witness ==
  /\ request # None /\ request.pc = "done" /\ ~request.blank /\ ~request.stale
  /\ response # None /\ response.results = "some"
  /\ AnswerPair(response) = [index |-> Forward(1), inverted_index |-> Inverted(1)]
  /\ fs.doc = Forward(2) /\ fs.inv = Inverted(2)
  /\ saver.pc = "idle" /\ reader.pc = "idle"

\* C28: from the moment a search has locked the data to its return, the
\* installed pair is the one it locked, the candidates come from that
\* pair's inverted index and the paragraphs and results from that pair's
\* forward index, whatever a reload does meanwhile
C28_SearchSeesOnePair ==
  /\ DataLocked => snapshot = request.locked_pair
  /\ (IF request = None THEN FALSE ELSE request.pc \in {"candidates", "checked"})
       => request.inverted_index = request.locked_pair.inverted_index
  /\ (IF request = None THEN FALSE ELSE request.pc = "checked")
       => request.index = request.locked_pair.index
  /\ (IF request = None THEN FALSE ELSE request.pc = "done" /\ ~request.blank)
       => AnswerPair(response) = request.locked_pair

\* a reload that has read another forward index waits while the search,
\* between its candidate lookup and its return, holds the data
C28_Witness ==
  /\ request # None /\ request.pc = "candidates"
  /\ reader.pc = "have_doc"
  /\ reader.doc # snapshot.index
  /\ snapshot.inverted_index # None

\* ------------------------------------------------------------------------
\* Loading with the backup copy and the rebuild (checked under SpecLoad)
\* ------------------------------------------------------------------------
\* a file that parses as a forward index and passes the three tests: as
\* many records as total_documents, no empty path, as many paragraphs as
\* paragraph_count
Sound(file) ==
  IF file = NoFile \/ file = Unparseable THEN FALSE
  ELSE /\ Len(file.documents) = file.total_documents
       /\ \A i \in 1..Len(file.documents) :
            /\ file.documents[i].file_path # ""
            /\ Len(file.documents[i].content) = file.documents[i].paragraph_count

LoadReturned == last.op = "load"

MainRestored == [last.before EXCEPT !["doc"] = last.before["doc_bak"]]

\* C29 as stated: load_from_file returns the main file's index when it
\* parses and validates and writes nothing; otherwise it returns the index of
\* the .backup file when that parses and validates, and the main file then
\* holds the backup's bytes; otherwise it returns an error and writes nothing
C29_LoadRestoresMain ==
  LoadReturned =>
    IF Sound(last.before["doc"])
    THEN last.ok /\ last.index = last.before["doc"] /\ fs = last.before
    ELSE IF Sound(last.before["doc_bak"])
         THEN last.ok /\ last.index = last.before["doc_bak"] /\ fs = MainRestored
         ELSE ~last.ok /\ fs = last.before

\* C29 corrected: as above, but the restore is one fs::copy whose failure is
\* only reported: the backup's index is returned all the same, and the main
\* file holds the backup's bytes when the copy succeeded, is untouched when
\* the copy was refused, and is unreadable when the copy broke off
C29_LoadTriesToRestoreMain ==
  LoadReturned =>
    IF Sound(last.before["doc"])
    THEN last.ok /\ last.index = last.before["doc"] /\ fs = last.before
    ELSE IF Sound(last.before["doc_bak"])
         THEN /\ last.ok
              /\ last.index = last.before["doc_bak"]
              /\ (last.copy = "copied") => (fs = MainRestored)
              /\ (last.copy = "refused") => (fs = last.before)
              /\ (last.copy = "torn") => (fs = [last.before EXCEPT !["doc"] = Unparseable])
         ELSE ~last.ok /\ fs = last.before

\* a main file that parses and fails validation was replaced by its backup
C29_Witness ==
  /\ LoadReturned
  /\ last.before["doc"] \in InvalidForward
  /\ Sound(last.before["doc_bak"])
  /\ last.ok
  /\ last.index = last.before["doc_bak"]
  /\ fs["doc"] = last.before["doc_bak"]

RebuildReturned == last.op = "rebuild"

\* the three conditions of the rebuild on the indices that were loaded
Critical ==
  IF ~last.inv.ok THEN TRUE
  ELSE \/ docs_count_diff(last.doc.index.total_documents, last.inv.index.total_documents)
            > RebuildThreshold
       \/ /\ DOMAIN last.inv.index.word_to_docs = {}
          /\ last.doc.index.total_documents > 0

RebuiltAndCommitted ==
  /\ last.result = "true"
  /\ fs["doc"] = last.doc.index
  /\ fs["inv"] = rebuild_from_scratch(fs["doc"])

\* file f is as it was, or it failed to load and the copy from backup b ran
SameOrRestoreTried(f, b, loaded) ==
  \/ fs[f] = last.before[f]
  \/ /\ last.before[f] # loaded.index
     /\ last.before[b] = loaded.index
     /\ fs[f] \in {last.before[b], Unparseable}

I5(inverted) ==
  \A s \in DOMAIN inverted.word_to_docs :
    /\ inverted.word_to_docs[s] # <<>>
    /\ \A i \in 1..Len(inverted.word_to_docs[s]) :
         /\ inverted.word_to_docs[s][i].paragraph_positions # <<>>
         /\ \A j \in 1..Len(inverted.word_to_docs[s]) :
              i # j => inverted.word_to_docs[s][i].doc_index
                         # inverted.word_to_docs[s][j].doc_index

SortedByDocId(inverted) ==
  \A s \in DOMAIN inverted.word_to_docs :
    \A i \in 1..Len(inverted.word_to_docs[s]) : \A j \in 1..Len(inverted.word_to_docs[s]) :
      i < j => inverted.word_to_docs[s][i].doc_index <= inverted.word_to_docs[s][j].doc_index

\* C31: after every update cycle that commits, the committed inverted index
\* has no stem with an empty posting list, no DocPosition with an empty
\* position list and no two DocPositions of one posting list with the same
\* doc id, and every posting list is sorted by doc id.
C31_CommittedInvertedSatisfiesI5 == Committed => (I5(fs.inv) /\ SortedByDocId(fs.inv))

\* a commit after a re-parse of document 0 while document 1 shares a stem
\* with it: the re-added entry was pushed behind the one of document 1
C31_Witness ==
  /\ Committed
  /\ 0 \in Range(last.new_or_updated_indices)
  /\ Exists(last.prev, "inv")
  /\ \E s \in DOMAIN last.prev.inv.word_to_docs :
       /\ s \in DOMAIN fs.inv.word_to_docs
       /\ Len(last.prev.inv.word_to_docs[s]) >= 2
       /\ Len(fs.inv.word_to_docs[s]) >= 2
       /\ fs.inv.word_to_docs[s][1].doc_index = 0

\* ------------------------------------------------------------------------
\* Length of the stems (checked under SpecText)
\* ------------------------------------------------------------------------
\* C32: every stem that word extraction hands to the inverted index, and
\* every key of the index built and cleaned up from a paragraph, is a string
\* of at least 2 characters: a one-letter word is never indexed.
C32_StemsHaveTwoLetters ==
  /\ norm.indexed # None =>
        \A i \in 1..Len(norm.indexed.words) : Len(norm.indexed.words[i]) >= 2
  /\ norm.built # None =>
        \A w \in DOMAIN norm.built.word_to_docs : Len(w) >= 2

\* ------------------------------------------------------------------------
\* The change sets of a reconcile (checked under Spec)
\* ------------------------------------------------------------------------
Positions(index) == 0..(Len(index.documents) - 1)

\* C33: every id in new_or_updated_indices is, in the returned forward
\* index, the position of a record parsed in this scan, and the position of
\* every record parsed in this scan is in new_or_updated_indices, also when
\* other records were deleted in the scan; likewise for renamed_indices and
\* the records the scan moved to another path.
C33_ChangeSetNamesParsedRecords ==
  last.ran =>
    \A d \in Positions(last.index) \cup Range(last.new_or_updated_indices)
              \cup Range(last.renamed_indices) :
      /\ d \in Positions(last.index)
      /\ (d \in Range(last.new_or_updated_indices)) <=> last.marks[d + 1].parsed
      /\ (d \in Range(last.renamed_indices)) <=> last.marks[d + 1].renamed

\* the same without a deletion in the scan
C33_ChangeSetWithoutDeletion ==
  (last.ran /\ last.stats.deleted = 0) =>
    \A d \in Positions(last.index) \cup Range(last.new_or_updated_indices)
              \cup Range(last.renamed_indices) :
      /\ d \in Positions(last.index)
      /\ (d \in Range(last.new_or_updated_indices)) <=> last.marks[d + 1].parsed
      /\ (d \in Range(last.renamed_indices)) <=> last.marks[d + 1].renamed

RECURSIVE SumOfWordCounts(_)
SumOfWordCounts(documents) ==
  IF documents = <<>> THEN 0
  ELSE Head(documents).word_count + SumOfWordCounts(Tail(documents))

\* C34: after any reconcile, also one in which a new or a modified file
\* fails to parse, total_words of the returned forward index equals the sum
\* of word_count over its records and has not gone below zero.
C34_TotalWordsIsSum ==
  last.ran =>
    /\ last.index.total_words = SumOfWordCounts(last.index.documents)
    /\ last.index.total_words >= 0

\* the subtraction of usize values never goes below zero
C34_TotalWordsNeverUnderflows == last.ran => last.index.total_words >= 0

\* ------------------------------------------------------------------------
\* Classification of the files of a scan (checked under Spec)
\* ------------------------------------------------------------------------
\* the records of the index the reconcile started from
PrevDocs == IF Exists(last.prev, "doc") THEN last.prev.doc.documents ELSE <<>>

OnDisk(q) == last.folder[q] # NoFile

\* the record a parse of the file at path q yields
ParsedRecord(q) == DocumentRecord(q, last.folder[q], ContentOf(last.folder[q].body))

\* the number of files the scan found unchanged
UnchangedFiles ==
  Cardinality({q \in Paths : OnDisk(q) /\ \E k \in 1..Len(PrevDocs) :
                 /\ PrevDocs[k].file_path = q
                 /\ last.folder[q].mtime <= PrevDocs[k].last_modified})

\* a file that is not newer than its record: counted as skipped, the record
\* is in the returned index as it was, and its id is in no change set
ClassifiedUnchanged(q, k) ==
  /\ last.stats.skipped = UnchangedFiles
  /\ \E i \in 1..Len(last.index.documents) :
       /\ last.origin[i] = k - 1
       /\ last.index.documents[i] = PrevDocs[k]
       /\ (i - 1) \notin Range(last.new_or_updated_indices)
       /\ (i - 1) \notin Range(last.renamed_indices)

\* a file that is newer than its record and parses: the record at the same
\* id is the newly parsed one, and the id is in new_or_updated_indices
ClassifiedUpdated(q, k) ==
  /\ k <= Len(last.index.documents)
  /\ last.index.documents[k] = ParsedRecord(q)
  /\ (k - 1) \in Range(last.new_or_updated_indices)

\* a file that matches no record and parses: its record was appended behind
\* the records that existed, and its id is in new_or_updated_indices
ClassifiedNew(q) ==
  \E i \in 1..Len(last.index.documents) :
    /\ i > Len(PrevDocs)
    /\ last.index.documents[i] = ParsedRecord(q)
    /\ (i - 1) \in Range(last.new_or_updated_indices)

\* no record has the path q or stands for a file of the size and mtime of q
MatchesNoRecord(q) ==
  \A k \in 1..Len(PrevDocs) :
    /\ PrevDocs[k].file_path # q
    /\ OnDisk(PrevDocs[k].file_path) =>
          (last.folder[PrevDocs[k].file_path].size # last.folder[q].size
           \/ last.folder[PrevDocs[k].file_path].mtime # last.folder[q].mtime)

C35_UnchangedPart ==
  last.ran =>
    \A q \in Paths : \A k \in 1..Len(PrevDocs) :
      (OnDisk(q) /\ PrevDocs[k].file_path = q
         /\ last.folder[q].mtime <= PrevDocs[k].last_modified) => ClassifiedUnchanged(q, k)

C35_UpdatedPart ==
  last.ran =>
    \A q \in Paths : \A k \in 1..Len(PrevDocs) :
      (OnDisk(q) /\ PrevDocs[k].file_path = q /\ ParseOk(last.folder[q].body)
         /\ last.folder[q].mtime > PrevDocs[k].last_modified) => ClassifiedUpdated(q, k)

C35_NewPart ==
  last.ran =>
    \A q \in Paths :
      (OnDisk(q) /\ ParseOk(last.folder[q].body) /\ MatchesNoRecord(q)) => ClassifiedNew(q)

\* C35: a file whose mtime is not above the mtime stored for its path is
\* unchanged: it is counted as skipped, its record is untouched and its id is
\* in no change set; a file whose mtime is above the stored one is parsed
\* again and its record replaced at the same id, the id being in the change
\* set; a file that matches no record is parsed and appended, its id being
\* the previous length of the sequence.
C35_Classification == C35_UnchangedPart /\ C35_UpdatedPart /\ C35_NewPart

\* the same for the scans that took no file for a renamed one and removed
\* no record
C35_ClassificationOfPlainScans ==
  (last.ran /\ last.stats.renamed = 0 /\ last.stats.deleted = 0) => C35_Classification

\* ------------------------------------------------------------------------
\* The deletion pass of a reconcile (checked under Spec)
\* ------------------------------------------------------------------------
\* the former positions of the records that are not in the returned index
RemovedPositions == (0..(Len(PrevDocs) - 1)) \ Range(last.origin)

\* C36: after a reconcile the returned forward index has no record whose
\* path was not seen by the walk; deleted_file_paths is exactly the set of
\* the paths of the records removed, the deleted counter is its size, and
\* the surviving records are in the order they had.
C36_DeletionPass ==
  last.ran =>
    /\ \A i \in 1..Len(last.index.documents) : OnDisk(last.index.documents[i].file_path)
    /\ Range(last.deleted_file_paths) = {PrevDocs[k + 1].file_path : k \in RemovedPositions}
    /\ last.stats.deleted = Cardinality(Range(last.deleted_file_paths))
    /\ \A i \in 1..Len(last.origin) : \A j \in 1..Len(last.origin) :
         (i < j /\ last.origin[i] # -1 /\ last.origin[j] # -1)
           => last.origin[i] < last.origin[j]

\* the first of two records was removed and the second survives
C36_Witness ==
  /\ last.ran
  /\ Len(PrevDocs) = 2
  /\ last.stats.deleted = 1
  /\ last.deleted_file_paths = <<PrevDocs[1].file_path>>
  /\ Len(last.index.documents) >= 1
  /\ last.origin[1] = 1
  /\ last.index.documents[1].file_path = PrevDocs[2].file_path

\* ------------------------------------------------------------------------
\* Properties of remove_duplicate_entries (checked under SpecDedupe)
\* ------------------------------------------------------------------------
StrictlyIncreasing(ps) == \A i \in 1..Len(ps) : \A j \in 1..Len(ps) : i < j => ps[i] < ps[j]

DocIdsIncrease(inv) ==
  \A w \in DOMAIN inv.word_to_docs :
    StrictlyIncreasing([i \in 1..Len(inv.word_to_docs[w]) |-> inv.word_to_docs[w][i].doc_index])

PositionsIncrease(inv) ==
  \A w \in DOMAIN inv.word_to_docs : \A i \in 1..Len(inv.word_to_docs[w]) :
    StrictlyIncreasing(inv.word_to_docs[w][i].paragraph_positions)

Deduped == request # None

\* C37: remove_duplicate_entries keeps the set of (stem, doc id, position)
\* postings and leaves every posting list with strictly increasing doc ids
\* and every position list strictly increasing, whatever the input; a second
\* application changes nothing and returns 0.
C37_DedupeNormalises ==
  Deduped =>
    /\ PostingsOf(snapshot.inverted_index) = PostingsOf(request.before)
    /\ DocIdsIncrease(snapshot.inverted_index)
    /\ PositionsIncrease(snapshot.inverted_index)
    /\ ops = 2 => (snapshot.inverted_index = request.before /\ request.returned = 0)

\* the same without the order of the positions
C37_DedupeMergesDocIds ==
  Deduped =>
    /\ PostingsOf(snapshot.inverted_index) = PostingsOf(request.before)
    /\ DocIdsIncrease(snapshot.inverted_index)
    /\ ops = 2 => (snapshot.inverted_index = request.before /\ request.returned = 0)

\* ------------------------------------------------------------------------
\* Convergence of the drift probe (checked under SpecTick)
\* ------------------------------------------------------------------------
\* the step is an update of the orchestrator that returned Ok
UpdateSucceeded == request.pc = "update" /\ request'.updated /\ request'.update_ok

\* what the next drift probe answers if the cache is left as it is
DriftAfterwards == check_cache_vs_index(disk', fs')

\* C38: once an update cycle has succeeded, the drift probe of the next
\* tick reports no drift if the cache has not changed in between, whatever
\* made the probe ask for the update: a file missing from the index, a size
\* that differs, a newer mtime, or a record without a file in the cache.
C38_DriftProbeConverges == [][UpdateSucceeded => ~DriftAfterwards]_vars

\* the same for a cache in which every file parses
C38_ConvergesForParsableFiles ==
  [][(UpdateSucceeded /\ \A q \in Paths : disk[q] # NoFile => ParseOk(disk[q].body))
       => ~DriftAfterwards]_vars

\* ------------------------------------------------------------------------
\* Validation of the inverted index on load (checked under SpecLoad)
\* ------------------------------------------------------------------------
\* rebuild_inverted_index_if_needed got as far as InvertedIndex::load_from_file
InvLoadReturned == last.op = "rebuild" /\ last.doc.ok

\* the files InvertedIndex::load_from_file was called on
InvLoadFiles == last.doc.files

MainParses == try_load_file(InvLoadFiles, "inv").ok

\* the one content validate_index rejects
EmptyWithLargeTotal(index) ==
  DOMAIN index.word_to_docs = {} /\ index.total_documents > 100

\* a file load_from_file cannot use: absent, not JSON, or rejected
Unusable(f) ==
  \/ ~try_load_file(InvLoadFiles, f).ok
  \/ EmptyWithLargeTotal(try_load_file(InvLoadFiles, f).index)

\* C39: InvertedIndex::load_from_file never fails for a main file that
\* parses as JSON of the inverted schema, whatever its contents (an empty
\* map with any total_documents, short stems, empty posting or position
\* lists); validation is advisory.
C39_ParsableMainAlwaysLoads ==
  (InvLoadReturned /\ MainParses) => (last.inv.ok /\ last.inv.index = InvLoadFiles["inv"])

\* C39 with the one hard test of validate_index: a main file that parses
\* is loaded as it is unless its map is empty and its total_documents is
\* over 100, and the load fails exactly when neither the main file nor the
\* backup is usable
C39_LoadFailsOnlyForUnusableFiles ==
  InvLoadReturned =>
    /\ (MainParses /\ ~EmptyWithLargeTotal(InvLoadFiles["inv"]))
          => (last.inv.ok /\ last.inv.index = InvLoadFiles["inv"])
    /\ ~last.inv.ok <=> (Unusable("inv") /\ Unusable("inv_bak"))

\* an empty map that claims documents, a short stem, an empty posting list
\* or an empty position list has been loaded from the main file
C39_Witness ==
  /\ InvLoadReturned /\ MainParses /\ last.inv.ok
  /\ last.inv.index = InvLoadFiles["inv"]
  /\ \/ DOMAIN last.inv.index.word_to_docs = {} /\ last.inv.index.total_documents > 0
     \/ last.inv.index \in WarnedInverted
====
